---- MODULE Spec2Model ----
(***************************************************************************)
(* Ingestion service: the full-sync orchestrator (run_full_sync) with its  *)
(* collaborators: DocumentParser (TextCleaner + DocumentChunker),          *)
(* EmbeddingService.embed_chunks (with the retry wrapper around            *)
(* generate_embeddings) and SearchService.upload_documents.                *)
(*                                                                         *)
(* A text is a sequence of one-character strings.  "^A" stands for one     *)
(* control character of the class [\x00-\x08\x0E-\x1B\x7F].                *)
(***************************************************************************)
EXTENDS Integers, Sequences, FiniteSets, TLC

\* ------------------------------------------------------------------ bounds
\* Number of documents one fetch can return.
MaxDocs == 2
\* DocumentParser(chunk_size, chunk_overlap), scaled down from 800 / 100.
ChunkSize == 4
ChunkOverlap == 1
\* Largest configured EMBEDDING_BATCH_SIZE / INDEXING_BATCH_SIZE.
MaxBatch == 2

\* ------------------------------------------------------------------ text
\* Characters matched by \s in the model's alphabet.
Whitespace == {" ", "\n", "\r", "\t"}
\* Characters matched by [\x00-\x08\x0B-\x0C\x0E-\x1F\x7F] and not by \s.
ControlChars == {"^A"}
\* Characters of the look-behind class [.!?].
Terminators == {".", "!", "?"}

Min(a, b) == IF a <= b THEN a ELSE b
Max(a, b) == IF a >= b THEN a ELSE b

\* Python slice s[a:b] for 0 <= a, 0 <= b.
Slice(s, a, b) == SubSeq(s, a + 1, Min(b, Len(s)))

\* Python slice s[-k:] for k >= 0; s[-0:] is s[0:], the whole list.
TailSlice(s, k) == IF k = 0 THEN s ELSE SubSeq(s, Max(Len(s) - k, 0) + 1, Len(s))

\* Number of leading whitespace characters of t.
LeadingSpace(t) ==
    CHOOSE n \in 0..Len(t) :
        /\ \A i \in 1..n : t[i] \in Whitespace
        /\ n = Len(t) \/ t[n + 1] \notin Whitespace

\* Number of leading non-whitespace characters of t.
LeadingWord(t) ==
    CHOOSE n \in 0..Len(t) :
        /\ \A i \in 1..n : t[i] \notin Whitespace
        /\ n = Len(t) \/ t[n + 1] \in Whitespace

\* Number of trailing whitespace characters of t.
TrailingSpace(t) ==
    CHOOSE n \in 0..Len(t) :
        /\ \A i \in (Len(t) - n + 1)..Len(t) : t[i] \in Whitespace
        /\ n = Len(t) \/ t[Len(t) - n] \notin Whitespace

\* str.strip()
strip(t) == SubSeq(t, LeadingSpace(t) + 1, Len(t) - TrailingSpace(t))

\* re.sub(r'\s+', ' ', text)
RECURSIVE collapse_whitespace(_)
collapse_whitespace(t) ==
    IF t = <<>> THEN <<>>
    ELSE IF Head(t) \in Whitespace
         THEN <<" ">> \o collapse_whitespace(SubSeq(t, LeadingSpace(t) + 1, Len(t)))
         ELSE <<Head(t)>> \o collapse_whitespace(Tail(t))

\* re.sub(r'[\x00-\x08\x0B-\x0C\x0E-\x1F\x7F]', '', text)
remove_control(t) == SelectSeq(t, LAMBDA c : c \notin ControlChars)

\* text.replace('\r\n', '\n').replace('\r', '\n')
RECURSIVE normalize_breaks(_)
normalize_breaks(t) ==
    IF t = <<>> THEN <<>>
    ELSE IF Head(t) = "\r"
         THEN IF Len(t) >= 2 /\ t[2] = "\n"
              THEN <<"\n">> \o normalize_breaks(SubSeq(t, 3, Len(t)))
              ELSE <<"\n">> \o normalize_breaks(Tail(t))
         ELSE <<Head(t)>> \o normalize_breaks(Tail(t))

\* Number of leading "\n" characters of t.
LeadingNewlines(t) ==
    CHOOSE n \in 0..Len(t) :
        /\ \A i \in 1..n : t[i] = "\n"
        /\ n = Len(t) \/ t[n + 1] # "\n"

\* re.sub(r'\n{3,}', '\n\n', text)
RECURSIVE collapse_newlines(_)
collapse_newlines(t) ==
    IF t = <<>> THEN <<>>
    ELSE LET n == LeadingNewlines(t) IN
         IF n >= 3 THEN <<"\n", "\n">> \o collapse_newlines(SubSeq(t, n + 1, Len(t)))
         ELSE <<Head(t)>> \o collapse_newlines(Tail(t))

\* TextCleaner.clean_text
clean_text(text) ==
    IF text = <<>> THEN <<>>
    ELSE strip(collapse_newlines(normalize_breaks(remove_control(collapse_whitespace(text)))))

\* str.split(): the whitespace-delimited words of t.
RECURSIVE split(_)
split(t) ==
    LET s == SubSeq(t, LeadingSpace(t) + 1, Len(t)) IN
    IF s = <<>> THEN <<>>
    ELSE <<SubSeq(s, 1, LeadingWord(s))>> \o split(SubSeq(s, LeadingWord(s) + 1, Len(s)))

\* sep.join(parts) for a list of strings.
RECURSIVE join(_, _)
join(sep, parts) ==
    IF parts = <<>> THEN <<>>
    ELSE IF Len(parts) = 1 THEN parts[1]
    ELSE parts[1] \o sep \o join(sep, Tail(parts))

\* Positions p where a match of (?<=[.!?])\s+ can start.
SentenceBreaks(t) ==
    {p \in 2..Len(t) : t[p] \in Whitespace /\ t[p - 1] \in Terminators}

\* re.split(r'(?<=[.!?])\s+', text)
RECURSIVE split_sentences(_)
split_sentences(t) ==
    IF SentenceBreaks(t) = {} THEN <<t>>
    ELSE LET p == CHOOSE q \in SentenceBreaks(t) : \A r \in SentenceBreaks(t) : q <= r
             rest == SubSeq(t, p, Len(t))
         IN <<SubSeq(t, 1, p - 1)>>
                \o split_sentences(SubSeq(rest, LeadingSpace(rest) + 1, Len(rest)))

\* ------------------------------------------------------------------ chunker
\* DocumentChunker.chunk_text, the while loop from `start` on with `chunks` so far.
RECURSIVE chunk_text_loop(_, _, _, _, _)
chunk_text_loop(words, start, chunks, chunk_size, chunk_overlap) ==
    LET end == start + chunk_size
        chunks1 == Append(chunks, join(<<" ">>, Slice(words, start, end)))
        next == end - chunk_overlap
    IN IF next <= Len(words) - chunk_size
       THEN chunk_text_loop(words, next, chunks1, chunk_size, chunk_overlap)
       ELSE IF next < Len(words)
            THEN Append(chunks1, join(<<" ">>, Slice(words, next, Len(words))))
            ELSE chunks1

\* DocumentChunker.chunk_text (called with chunk_overlap < chunk_size).
chunk_text(text, chunk_size, chunk_overlap) ==
    IF text = <<>> THEN <<>>
    ELSE IF Len(split(text)) <= chunk_size THEN <<text>>
    ELSE chunk_text_loop(split(text), 0, <<>>, chunk_size, chunk_overlap)

\* One iteration of the sentence loop of chunk_by_sentences; st holds
\* chunks, current_chunk and current_size.
sentence_step(st, sentence, chunk_size, chunk_overlap) ==
    LET sentence_size == Len(split(sentence)) IN
    IF st.current_size + sentence_size <= chunk_size
    THEN [st EXCEPT !.current_chunk = Append(@, sentence),
                    !.current_size = @ + sentence_size]
    ELSE LET chunks1 == IF st.current_chunk # <<>>
                        THEN Append(st.chunks, join(<<" ">>, st.current_chunk))
                        ELSE st.chunks
         IN IF sentence_size <= chunk_size
            THEN LET overlap_words ==
                         IF chunks1 # <<>>
                         THEN TailSlice(split(chunks1[Len(chunks1)]), chunk_overlap)
                         ELSE <<>>
                     current == IF overlap_words # <<>>
                                THEN <<join(<<" ">>, overlap_words), sentence>>
                                ELSE <<sentence>>
                 IN [chunks |-> chunks1,
                     current_chunk |-> current,
                     current_size |-> Len(split(join(<<" ">>, current)))]
            ELSE [chunks |-> chunks1 \o chunk_text(sentence, chunk_size, chunk_overlap),
                  current_chunk |-> <<>>,
                  current_size |-> 0]

RECURSIVE sentence_loop(_, _, _, _)
sentence_loop(st, sentences, chunk_size, chunk_overlap) ==
    IF sentences = <<>> THEN st
    ELSE sentence_loop(sentence_step(st, Head(sentences), chunk_size, chunk_overlap),
                       Tail(sentences), chunk_size, chunk_overlap)

\* Mutant of chunk_by_sentences: the chunk still being accumulated when the
\* sentences run out is not appended.
chunk_by_sentences_no_final(text, chunk_size, chunk_overlap) ==
    IF text = <<>> THEN <<>>
    ELSE sentence_loop([chunks |-> <<>>, current_chunk |-> <<>>, current_size |-> 0],
                       split_sentences(text), chunk_size, chunk_overlap).chunks

\* DocumentChunker.chunk_by_sentences
chunk_by_sentences(text, chunk_size, chunk_overlap) ==
    IF text = <<>> THEN <<>>
    ELSE LET st == sentence_loop([chunks |-> <<>>, current_chunk |-> <<>>, current_size |-> 0],
                                 split_sentences(text), chunk_size, chunk_overlap)
         IN IF st.current_chunk # <<>>
            THEN Append(st.chunks, join(<<" ">>, st.current_chunk))
            ELSE st.chunks

\* ------------------------------------------------------------------ documents
\* Document contents the source can deliver.
TextBlank == <<" ", "\n">>
TextOne == <<"a", " ", "b", ".">>
TextTwo == <<"a", " ", "b", ".", " ", "c", " ", "d", ".", "\n", "e", " ", "f", ".">>

\* The kinds of Document a connector can hand over (base_connector.Document is
\* an unvalidated dataclass): content that is a str or not, metadata that is a
\* dict or not.
DocKinds ==
    { [content |-> TextBlank, content_is_str |-> TRUE, metadata_is_dict |-> TRUE],
      [content |-> TextOne, content_is_str |-> TRUE, metadata_is_dict |-> TRUE],
      [content |-> TextTwo, content_is_str |-> TRUE, metadata_is_dict |-> TRUE],
      [content |-> TextOne, content_is_str |-> TRUE, metadata_is_dict |-> FALSE],
      [content |-> TextOne, content_is_str |-> FALSE, metadata_is_dict |-> TRUE] }

\* The document lists fetch_all_documents can return; the id of a document is
\* its position (page ids are unique).
DocLists ==
    UNION { { [i \in 1..n |-> [id |-> i,
                               content |-> k[i].content,
                               content_is_str |-> k[i].content_is_str,
                               metadata_is_dict |-> k[i].metadata_is_dict]]
              : k \in [1..n -> DocKinds] } : n \in 0..MaxDocs }

\* ------------------------------------------------------------------ parser
\* f"{document.id}_chunk_{idx}"
chunk_id(document_id, idx) == <<document_id, "_chunk_", idx>>

\* Mutant of processed_chunk: the ordinal counts from 1.
processed_chunk_one_based(document, chunks, idx) ==
    [id |-> chunk_id(document.id, idx + 1),
     content |-> chunks[idx + 1],
     chunk_index |-> idx + 1,
     total_chunks |-> Len(chunks)]

\* Lines 75-92: the ProcessedChunk for chunks[idx] (idx counts from 0).
processed_chunk(document, chunks, idx) ==
    [id |-> chunk_id(document.id, idx),
     content |-> chunks[idx + 1],
     chunk_index |-> idx,
     total_chunks |-> Len(chunks)]

\* The try body of DocumentParser.process_document: raised tells whether an
\* exception left it (re.sub on a non-str content, .get on a non-dict metadata).
process_document_try(document, chunk_size, chunk_overlap) ==
    IF ~document.content_is_str THEN [raised |-> TRUE, value |-> <<>>]
    ELSE LET cleaned_content == clean_text(document.content) IN
         IF cleaned_content = <<>> THEN [raised |-> FALSE, value |-> <<>>]
         ELSE LET chunks == chunk_by_sentences(cleaned_content, chunk_size, chunk_overlap) IN
              IF chunks = <<>> THEN [raised |-> FALSE, value |-> <<>>]
              ELSE IF ~document.metadata_is_dict THEN [raised |-> TRUE, value |-> <<>>]
              ELSE [raised |-> FALSE,
                    value |-> [k \in 1..Len(chunks) |->
                                  processed_chunk(document, chunks, k - 1)]]

\* Mutant of process_document: no except clause, the raise leaves the method.
process_document_no_except(document, chunk_size, chunk_overlap) ==
    process_document_try(document, chunk_size, chunk_overlap)

\* DocumentParser.process_document: the except clause turns a raise into a
\* normal return of [].
process_document(document, chunk_size, chunk_overlap) ==
    LET r == process_document_try(document, chunk_size, chunk_overlap) IN
    IF r.raised THEN [raised |-> FALSE, value |-> <<>>] ELSE r

\* ------------------------------------------------------------------ state
\* retry_with_backoff(max_retries=3) on generate_embeddings / upload_documents.
EmbedMaxRetries == 3
UploadMaxRetries == 3

VARIABLES
    pc,                      \* position in run_full_sync
    stats,                   \* the stats dict of the run
    exc,                     \* the exception raised: the call it left and where it arose
    propagated,              \* an exception left run_full_sync
    exit_path,               \* which return of run_full_sync was taken
    exit_code,               \* run_sync: the process exit status ("none" before)
    calls,                   \* history: collaborator calls invoked, in order
    returned,                \* history: collaborator calls that returned normally
    embed_batch_size,        \* EmbeddingService.batch_size
    index_batch_size,        \* SearchService.batch_size
    documents,               \* run_full_sync local
    chunks,                  \* run_full_sync local
    chunks_with_embeddings,  \* run_full_sync local
    doc_i,                   \* process_documents: index of the next document
    all_chunks,              \* process_documents local
    emb_i,                   \* embed_chunks: loop variable i
    emb_attempt,             \* retry wrapper of generate_embeddings: attempt
    results,                 \* embed_chunks local
    failed_batches,          \* history: the i of every batch whose embedding failed
    up_i,                    \* upload_documents: loop variable i
    up_attempt,              \* retry wrapper of upload_documents: attempt
    uploaded_count,          \* upload_documents local
    failed_count,            \* upload_documents local
    up_log,                  \* history: what the store answered in this body run
    ck_pc,                   \* chunker / parser instance: position of the caller
    ck_size,                 \* DocumentChunker.chunk_size
    ck_overlap,              \* DocumentChunker.chunk_overlap
    ck_text,                 \* the text handed to the chunker
    ck_op,                   \* the method called last
    ck_words,                \* chunk_text local `words`
    ck_start,                \* chunk_text local `start`
    ck_chunks,               \* chunk_text local `chunks`
    ck_out,                  \* what the last call returned
    ck_first,                \* history: what the first call of each method returned
    rag_pc,                  \* position in answer_question / get_relevant_chunks
    rag_op,                  \* the RAGService method running
    rag_hybrid,              \* use_hybrid_search
    rag_attempt,             \* retry wrapper of generate_embeddings: attempt
    rag_calls,               \* history: provider and store invocations of this call
    rag_chunks,              \* answer_question local `chunks`
    rag_result,              \* the dict returned, as a list of one (empty before)
    rag_raised,              \* the call raised to its caller
    rt_pc,                   \* position in retry_with_backoff's wrapper
    rt_max,                  \* max_retries
    rt_factor,               \* backoff_factor
    rt_attempt,              \* loop variable `attempt`
    rt_delay,                \* wrapper local `delay`
    rt_log,                  \* history: attempts and sleeps, in order
    rt_outcome,              \* how the wrapper ended ("none" before)
    previous_docs,           \* search index: documents left from the previous cycle
    cl_pc,                   \* position of the caller of TextCleaner.clean_text
    cl_text,                 \* the text handed to clean_text
    cl_out,                  \* what clean_text returned
    rag_service,             \* api: top_k, temperature, max_tokens of the shared RAGService
    api_pc,                  \* api: position of each request handler
    api_request,             \* api: the request each handler is serving
    api_served,              \* api: the values each handler's request was served with
    api_last_write           \* history: the handler that assigned rag_service.top_k last

sync_vars == <<pc, stats, exc, propagated, exit_path, exit_code, calls, returned,
               embed_batch_size, index_batch_size, documents, chunks,
               chunks_with_embeddings, doc_i, all_chunks, emb_i, emb_attempt, results,
               failed_batches, up_i, up_attempt, uploaded_count, failed_count, up_log,
               previous_docs>>
chunker_vars == <<ck_pc, ck_size, ck_overlap, ck_text, ck_op, ck_words, ck_start,
                  ck_chunks, ck_out, ck_first>>
rag_vars == <<rag_pc, rag_op, rag_hybrid, rag_attempt, rag_calls, rag_chunks,
              rag_result, rag_raised>>
retry_vars == <<rt_pc, rt_max, rt_factor, rt_attempt, rt_delay, rt_log, rt_outcome>>
cleaner_vars == <<cl_pc, cl_text, cl_out>>
api_vars == <<rag_service, api_pc, api_request, api_served, api_last_write>>

vars == <<sync_vars, chunker_vars, rag_vars, retry_vars, cleaner_vars, api_vars>>

orch_vars == <<documents, chunks, chunks_with_embeddings>>
parse_vars == <<doc_i, all_chunks>>
embed_vars == <<emb_i, emb_attempt, results, failed_batches>>
upload_vars == <<up_i, up_attempt, uploaded_count, failed_count, up_log>>
config_vars == <<embed_batch_size, index_batch_size>>
index_vars == <<previous_docs>>

\* The stats dict built at the top of run_full_sync (end_time and
\* duration_seconds are not keys yet).
initial_stats ==
    [documents_fetched |-> 0, chunks_created |-> 0, chunks_embedded |-> 0,
     chunks_uploaded |-> 0, failed_uploads |-> 0, errors |-> <<>>,
     success |-> FALSE, end_time |-> "absent", duration_seconds |-> "absent"]

no_exception == [step |-> "none", origin |-> "none"]

empty_log == [succeeded |-> 0, rejected |-> 0, raised_items |-> 0,
              batches |-> 0, exact |-> TRUE]

\* The call history of a chunker instance before any call has returned.
no_calls == [out |-> <<>>, repeated |-> FALSE]

\* The chunker, the RAG service and a retry wrapper while nothing calls them.
ChunkerOff ==
    /\ ck_pc = "off"
    /\ ck_size = 0
    /\ ck_overlap = 0
    /\ ck_text = <<>>
    /\ ck_op = "none"
    /\ ck_words = <<>>
    /\ ck_start = 0
    /\ ck_chunks = <<>>
    /\ ck_out = <<>>
    /\ ck_first = no_calls

RagOff ==
    /\ rag_pc = "off"
    /\ rag_op = "none"
    /\ rag_hybrid = FALSE
    /\ rag_attempt = 0
    /\ rag_calls = <<>>
    /\ rag_chunks = <<>>
    /\ rag_result = <<>>
    /\ rag_raised = FALSE

RetryOff ==
    /\ rt_pc = "off"
    /\ rt_max = 0
    /\ rt_factor = 0
    /\ rt_attempt = 0
    /\ rt_delay = 0
    /\ rt_log = <<>>
    /\ rt_outcome = "none"

\* The configured defaults (config/settings.py); the temperature 0.7 is
\* counted in tenths.
RAG_TOP_K == 5
RAG_TEMPERATURE_TENTHS == 7
RAG_MAX_TOKENS == 1000

settings ==
    [top_k |-> RAG_TOP_K, temperature |-> RAG_TEMPERATURE_TENTHS,
     max_tokens |-> RAG_MAX_TOKENS]

\* The module-level rag_service = RAGService(..., top_k=settings.RAG_TOP_K,
\* temperature=settings.RAG_TEMPERATURE, max_tokens=settings.RAG_MAX_TOKENS).
new_rag_service ==
    [top_k |-> settings.top_k, temperature |-> settings.temperature,
     max_tokens |-> settings.max_tokens]

\* The threads of the API server that handle requests.
Handlers == {"A", "B"}

\* A handler without a request; an optional field is a list of at most one
\* value.
no_request == [op |-> "none", top_k |-> <<>>, temperature |-> <<>>, max_tokens |-> <<>>]

nothing_served ==
    [top_k |-> <<>>, written_by |-> "none", temperature |-> <<>>, max_tokens |-> <<>>]

\* The text cleaner and the API server while nothing calls them.
CleanerOff ==
    /\ cl_pc = "off"
    /\ cl_text = <<>>
    /\ cl_out = <<>>

ApiOff ==
    /\ rag_service = new_rag_service
    /\ api_pc = [h \in Handlers |-> "off"]
    /\ api_request = [h \in Handlers |-> no_request]
    /\ api_served = [h \in Handlers |-> nothing_served]
    /\ api_last_write = "none"

\* The state in which run_full_sync starts, the search index apart.
RunStart ==
    /\ ChunkerOff
    /\ RagOff
    /\ RetryOff
    /\ CleanerOff
    /\ ApiOff
    /\ pc = "create_or_update_index"
    /\ stats = initial_stats
    /\ exc = no_exception
    /\ propagated = FALSE
    /\ exit_path = "none"
    /\ exit_code = "none"
    /\ calls = <<>>
    /\ returned = <<>>
    /\ embed_batch_size \in 1..MaxBatch
    /\ index_batch_size \in 1..MaxBatch
    /\ documents = <<>>
    /\ chunks = <<>>
    /\ chunks_with_embeddings = <<>>
    /\ doc_i = 0
    /\ all_chunks = <<>>
    /\ emb_i = 0
    /\ emb_attempt = 0
    /\ results = <<>>
    /\ failed_batches = {}
    /\ up_i = 0
    /\ up_attempt = 0
    /\ uploaded_count = 0
    /\ failed_count = 0
    /\ up_log = empty_log

\* A first run: the index holds nothing from a previous cycle.
Init ==
    /\ RunStart
    /\ previous_docs = 0

\* The locals of process_documents, embed_chunks and upload_documents (and the
\* history kept with them) as they are while the method is not running.
ParseIdle ==
    /\ doc_i' = 0
    /\ all_chunks' = <<>>

EmbedIdle ==
    /\ emb_i' = 0
    /\ emb_attempt' = 0
    /\ results' = <<>>

UploadIdle ==
    /\ up_i' = 0
    /\ up_attempt' = 0
    /\ uploaded_count' = 0
    /\ failed_count' = 0

\* The collaborator call `step` raises an exception that arose at `origin`:
\* control passes to the except clause of run_full_sync.
Raise(step, origin) ==
    /\ pc' = "except"
    /\ exc' = [step |-> step, origin |-> origin]

\* ------------------------------------------------------------------ run_full_sync
\* Mutant of next_step: the source is contacted before the index is cleared.
next_step_connect_first(step) ==
    CASE step = "create_or_update_index" -> "connect"
      [] step = "connect" -> "clear_index"
      [] step = "clear_index" -> "fetch_all_documents"
      [] step = "fetch_all_documents" -> "process_documents"
      [] step = "process_documents" -> "embed_chunks"
      [] step = "embed_chunks" -> "upload_documents"

\* The order of the collaborator calls in the try block.
next_step(step) ==
    CASE step = "create_or_update_index" -> "clear_index"
      [] step = "clear_index" -> "connect"
      [] step = "connect" -> "fetch_all_documents"
      [] step = "fetch_all_documents" -> "process_documents"
      [] step = "process_documents" -> "embed_chunks"
      [] step = "embed_chunks" -> "upload_documents"

\* Mutant of after_fetch: the early return leaves before the finaliser runs.
after_fetch_skip_finally(st, docs) ==
    LET s1 == [st EXCEPT !.documents_fetched = Len(docs)] IN
    IF docs = <<>>
    THEN [stats |-> [s1 EXCEPT !.success = TRUE], exit |-> "no_documents", pc |-> "done"]
    ELSE [stats |-> s1, exit |-> "none", pc |-> next_step("fetch_all_documents")]

\* Lines 76-81: documents_fetched, and the return on an empty list.
after_fetch(st, docs) ==
    LET s1 == [st EXCEPT !.documents_fetched = Len(docs)] IN
    IF docs = <<>>
    THEN [stats |-> [s1 EXCEPT !.success = TRUE], exit |-> "no_documents", pc |-> "finally"]
    ELSE [stats |-> s1, exit |-> "none", pc |-> next_step("fetch_all_documents")]

\* Mutant of after_process: no early return on an empty chunk list.
after_process_no_return(st, chs) ==
    [stats |-> [st EXCEPT !.chunks_created = Len(chs)],
     exit |-> "none", pc |-> next_step("process_documents")]

\* Lines 86-91: chunks_created, and the return on an empty list.
after_process(st, chs) ==
    LET s1 == [st EXCEPT !.chunks_created = Len(chs)] IN
    IF chs = <<>>
    THEN [stats |-> [s1 EXCEPT !.success = TRUE], exit |-> "no_chunks", pc |-> "finally"]
    ELSE [stats |-> s1, exit |-> "none", pc |-> next_step("process_documents")]

\* Mutant of after_embed: the empty-embedding return reports success like the
\* two returns before it.
after_embed_success_on_empty(st, pairs) ==
    LET s1 == [st EXCEPT !.chunks_embedded = Len(pairs)] IN
    IF pairs = <<>>
    THEN [stats |-> [s1 EXCEPT !.success = TRUE], exit |-> "no_embeddings", pc |-> "finally"]
    ELSE [stats |-> s1, exit |-> "none", pc |-> next_step("embed_chunks")]

\* Lines 96-100: chunks_embedded, and the return on an empty list.
after_embed(st, pairs) ==
    LET s1 == [st EXCEPT !.chunks_embedded = Len(pairs)] IN
    IF pairs = <<>>
    THEN [stats |-> s1, exit |-> "no_embeddings", pc |-> "finally"]
    ELSE [stats |-> s1, exit |-> "none", pc |-> next_step("embed_chunks")]

\* Mutant of after_upload: a failed upload fails the run.
after_upload_fail_on_failed(st, upload_results) ==
    [stats |-> [st EXCEPT !.chunks_uploaded = upload_results.uploaded,
                          !.failed_uploads = upload_results.failed,
                          !.success = (upload_results.failed = 0)],
     exit |-> "completed", pc |-> "finally"]

\* Lines 107-111: the upload counters and success.
after_upload(st, upload_results) ==
    [stats |-> [st EXCEPT !.chunks_uploaded = upload_results.uploaded,
                          !.failed_uploads = upload_results.failed,
                          !.success = TRUE],
     exit |-> "completed", pc |-> "finally"]

\* Mutant of except_clause: the error is logged and raised again, not recorded.
except_clause_reraise(st, e) ==
    [stats |-> st, reraise |-> TRUE]

\* Lines 113-117: the except clause; reraise tells whether it raises again.
except_clause(st, e) ==
    [stats |-> [st EXCEPT !.errors = Append(@, <<"Fatal error during sync: ", e.step>>),
                          !.success = FALSE],
     reraise |-> FALSE]

\* Lines 119-124: the finally clause.
finally_clause(st) ==
    [st EXCEPT !.end_time = "set", !.duration_seconds = "set"]

\* main.run_sync: the exit status after run_full_sync.
run_sync_exit(st, raised) ==
    IF raised THEN 1 ELSE IF ~st.success THEN 1 ELSE 0

Goto(r) ==
    /\ stats' = r.stats
    /\ exit_path' = r.exit
    /\ pc' = r.pc

\* A collaborator call that only returns or raises (steps 1 to 3).
SimpleCall(step) ==
    /\ pc = step
    /\ calls' = Append(calls, step)
    /\ \/ /\ returned' = Append(returned, step)
          /\ pc' = next_step(step)
          /\ exc' = exc
       \/ /\ Raise(step, "call")
          /\ returned' = returned
    /\ UNCHANGED <<stats, propagated, exit_path, exit_code, orch_vars, parse_vars,
                   embed_vars, upload_vars, config_vars, index_vars,
                   chunker_vars, rag_vars, retry_vars, cleaner_vars, api_vars>>

CreateOrUpdateIndex == SimpleCall("create_or_update_index")

\* The `top` of the id listing of clear_index.
ListingTop == 100000

\* Lines 167-173: the number of ids the search lists when the index holds n
\* documents.
listed_ids(n) == Min(n, ListingTop)

\* Lines 175-186: clear_index returns.  Nothing is deleted when no id was
\* listed; otherwise every delete_documents call returned, and its result is
\* not inspected: the store deleted every listed document, or failed one.
\* The set of numbers of documents the index can hold afterwards.
clear_index_returns(n) ==
    { n - listed_ids(n) + rejected : rejected \in 0..Min(listed_ids(n), 1) }

\* Lines 188-190: clear_index raises, because the search or the first
\* delete_documents call raised (nothing is deleted) or because the last one
\* did (every batch but the last is deleted).
clear_index_raises(n, batch_size) ==
    { n, n - batch_size * ((Max(listed_ids(n), 1) - 1) \div batch_size) }

\* Step 2 of run_full_sync: search_service.clear_index().
ClearIndex ==
    /\ pc = "clear_index"
    /\ calls' = Append(calls, "clear_index")
    /\ \/ /\ previous_docs' \in clear_index_returns(previous_docs)
          /\ returned' = Append(returned, "clear_index")
          /\ pc' = next_step("clear_index")
          /\ exc' = exc
       \/ /\ previous_docs' \in clear_index_raises(previous_docs, index_batch_size)
          /\ Raise("clear_index", "call")
          /\ returned' = returned
    /\ UNCHANGED <<stats, propagated, exit_path, exit_code, orch_vars, parse_vars,
                   embed_vars, upload_vars, config_vars,
                   chunker_vars, rag_vars, retry_vars, cleaner_vars, api_vars>>

Connect == SimpleCall("connect")

\* Step 4: fetch_all_documents returns a list or raises.
FetchAllDocuments ==
    /\ pc = "fetch_all_documents"
    /\ calls' = Append(calls, "fetch_all_documents")
    /\ \/ \E docs \in DocLists :
             /\ returned' = Append(returned, "fetch_all_documents")
             /\ documents' = docs
             /\ Goto(after_fetch(stats, docs))
             /\ exc' = exc
       \/ /\ Raise("fetch_all_documents", "call")
          /\ UNCHANGED <<returned, documents, stats, exit_path>>
    /\ UNCHANGED <<propagated, exit_code, chunks, chunks_with_embeddings, parse_vars,
                   embed_vars, upload_vars, config_vars, index_vars,
                   chunker_vars, rag_vars, retry_vars, cleaner_vars, api_vars>>

\* ------------------------------------------------------------------ process_documents
ProcessDocumentsCall ==
    /\ pc = "process_documents"
    /\ calls' = Append(calls, "process_documents")
    /\ doc_i' = 1
    /\ all_chunks' = <<>>
    /\ pc' = "in_process_documents"
    /\ UNCHANGED <<stats, exc, propagated, exit_path, exit_code, returned, orch_vars,
                   embed_vars, upload_vars, config_vars, index_vars,
                   chunker_vars, rag_vars, retry_vars, cleaner_vars, api_vars>>

\* One iteration of `for document in documents`.
ProcessDocument ==
    /\ pc = "in_process_documents"
    /\ doc_i <= Len(documents)
    /\ LET r == process_document(documents[doc_i], ChunkSize, ChunkOverlap) IN
       IF r.raised
       THEN /\ Raise("process_documents", "document")
            /\ ParseIdle
       ELSE /\ all_chunks' = all_chunks \o r.value
            /\ doc_i' = doc_i + 1
            /\ UNCHANGED <<pc, exc>>
    /\ UNCHANGED <<stats, propagated, exit_path, exit_code, calls, returned, orch_vars,
                   embed_vars, upload_vars, config_vars, index_vars,
                   chunker_vars, rag_vars, retry_vars, cleaner_vars, api_vars>>

\* An exception leaves process_documents from outside the try block of
\* process_document (for instance MemoryError while all_chunks grows).
ProcessDocumentsRaise ==
    /\ pc = "in_process_documents"
    /\ Raise("process_documents", "outside_try")
    /\ ParseIdle
    /\ UNCHANGED <<stats, propagated, exit_path, exit_code, calls, returned, orch_vars,
                   embed_vars, upload_vars, config_vars, index_vars,
                   chunker_vars, rag_vars, retry_vars, cleaner_vars, api_vars>>

\* process_documents returns all_chunks; lines 85-91 of run_full_sync.
ProcessDocumentsReturn ==
    /\ pc = "in_process_documents"
    /\ doc_i > Len(documents)
    /\ returned' = Append(returned, "process_documents")
    /\ chunks' = all_chunks
    /\ Goto(after_process(stats, all_chunks))
    /\ ParseIdle
    /\ UNCHANGED <<exc, propagated, exit_code, calls, documents, chunks_with_embeddings,
                   embed_vars, upload_vars, config_vars, index_vars,
                   chunker_vars, rag_vars, retry_vars, cleaner_vars, api_vars>>

\* ------------------------------------------------------------------ retry
\* Mutant of retry_decision: the last attempt is recognised one pass late.
retry_decision_late(attempt, max_retries) ==
    IF attempt = max_retries + 1 THEN "raise" ELSE "retry"

\* utils.retry.retry_with_backoff, the except clause of the attempt loop: the
\* last attempt re-raises, an earlier one sleeps and tries again.
retry_decision(attempt, max_retries) ==
    IF attempt = max_retries THEN "raise" ELSE "retry"

\* ------------------------------------------------------------------ embed_chunks
\* The embed provider: one vector per text, in the order of the texts.
provider_embeddings(texts) == [k \in 1..Len(texts) |-> [vector_of |-> texts[k]]]

\* zip(batch, embeddings)
zip(batch, embeddings) ==
    [k \in 1..Min(Len(batch), Len(embeddings)) |-> <<batch[k], embeddings[k]>>]

\* chunks[i:i + self.batch_size]
embed_batch(chs, i, batch_size) == Slice(chs, i, i + batch_size)

\* embed_chunks lines 85-88: generate_embeddings returned for the batch at i.
embed_chunks_on_success(res, chs, i, batch_size) ==
    LET batch == embed_batch(chs, i, batch_size)
        texts == [k \in 1..Len(batch) |-> batch[k].content]
    IN [raised |-> FALSE,
        results |-> res \o zip(batch, provider_embeddings(texts)),
        i |-> i + batch_size]

\* Mutant of embed_chunks_on_failure: no try around generate_embeddings, the
\* failure of a batch leaves embed_chunks.
embed_chunks_on_failure_raise(res, chs, i, batch_size) ==
    [raised |-> TRUE, results |-> res, i |-> i]

\* embed_chunks lines 96-99: generate_embeddings raised for the batch at i;
\* the batch is skipped and the loop continues.
embed_chunks_on_failure(res, chs, i, batch_size) ==
    [raised |-> FALSE, results |-> res, i |-> i + batch_size]

EmbedChunksCall ==
    /\ pc = "embed_chunks"
    /\ calls' = Append(calls, "embed_chunks")
    /\ results' = <<>>
    /\ emb_i' = 0
    /\ emb_attempt' = 0
    /\ failed_batches' = {}
    /\ pc' = "in_embed_chunks"
    /\ UNCHANGED <<stats, exc, propagated, exit_path, exit_code, returned, orch_vars,
                   parse_vars, upload_vars, config_vars, index_vars,
                   chunker_vars, rag_vars, retry_vars, cleaner_vars, api_vars>>

EmbedAdvance(r) ==
    IF r.raised
    THEN /\ Raise("embed_chunks", "batch")
         /\ EmbedIdle
    ELSE /\ results' = r.results
         /\ emb_i' = r.i
         /\ emb_attempt' = 0
         /\ UNCHANGED <<pc, exc>>

\* One attempt of generate_embeddings for the batch at emb_i, inside the retry
\* wrapper: the provider answers or raises.
GenerateEmbeddings ==
    /\ pc = "in_embed_chunks"
    /\ emb_i < Len(chunks)
    /\ \/ /\ EmbedAdvance(embed_chunks_on_success(results, chunks, emb_i, embed_batch_size))
          /\ UNCHANGED failed_batches
       \/ /\ retry_decision(emb_attempt, EmbedMaxRetries) = "retry"
          /\ emb_attempt' = emb_attempt + 1
          /\ UNCHANGED <<pc, exc, results, emb_i, failed_batches>>
       \/ /\ retry_decision(emb_attempt, EmbedMaxRetries) = "raise"
          /\ EmbedAdvance(embed_chunks_on_failure(results, chunks, emb_i, embed_batch_size))
          /\ failed_batches' = failed_batches \cup {emb_i}
    /\ UNCHANGED <<stats, propagated, exit_path, exit_code, calls, returned, orch_vars,
                   parse_vars, upload_vars, config_vars, index_vars,
                   chunker_vars, rag_vars, retry_vars, cleaner_vars, api_vars>>

\* An exception leaves embed_chunks from outside the try block around
\* generate_embeddings.
EmbedChunksRaise ==
    /\ pc = "in_embed_chunks"
    /\ Raise("embed_chunks", "outside_try")
    /\ EmbedIdle
    /\ UNCHANGED <<stats, propagated, exit_path, exit_code, calls, returned, orch_vars,
                   parse_vars, failed_batches, upload_vars, config_vars, index_vars,
                   chunker_vars, rag_vars, retry_vars, cleaner_vars, api_vars>>

\* embed_chunks returns results; lines 95-100 of run_full_sync.
EmbedChunksReturn ==
    /\ pc = "in_embed_chunks"
    /\ emb_i >= Len(chunks)
    /\ returned' = Append(returned, "embed_chunks")
    /\ chunks_with_embeddings' = results
    /\ Goto(after_embed(stats, results))
    /\ EmbedIdle
    /\ UNCHANGED <<exc, propagated, exit_code, calls, documents, chunks, parse_vars,
                   failed_batches, upload_vars, config_vars, index_vars,
                   chunker_vars, rag_vars, retry_vars, cleaner_vars, api_vars>>

\* ------------------------------------------------------------------ upload_documents
\* What the store can answer for a batch: a success flag per item, or (a
\* store that drops one answer) for all items but the last.
StoreResults(batch) ==
    UNION { [1..n -> BOOLEAN] : n \in (Len(batch) - 1)..Len(batch) }

\* chunks_with_embeddings[i:i + self.batch_size]
upload_batch(pairs, i, batch_size) == Slice(pairs, i, i + batch_size)

\* Lines 242-246: count the successes and failures of one store answer.
count_results(uploaded, failed, result) ==
    [uploaded |-> uploaded + Cardinality({k \in 1..Len(result) : result[k]}),
     failed |-> failed + Cardinality({k \in 1..Len(result) : ~result[k]})]

\* Mutant of upload_batch_except: a raising batch counts as one failure.
upload_batch_except_one(uploaded, failed, batch) ==
    [uploaded |-> uploaded, failed |-> failed + 1]

\* Mutant of upload_batch_except: a raising batch counts as a full batch of
\* self.batch_size failures, whatever the length of the slice.
upload_batch_except_full_batch(uploaded, failed, batch) ==
    [uploaded |-> uploaded, failed |-> failed + index_batch_size]

\* Lines 258-261: the store call raised; the whole batch counts as failed.
upload_batch_except(uploaded, failed, batch) ==
    [uploaded |-> uploaded, failed |-> failed + Len(batch)]

\* The locals of upload_documents at the start of the body.
UploadBodyStart ==
    /\ up_i' = 0
    /\ uploaded_count' = 0
    /\ failed_count' = 0
    /\ up_log' = empty_log

UploadDocumentsCall ==
    /\ pc = "upload_documents"
    /\ calls' = Append(calls, "upload_documents")
    /\ up_attempt' = 0
    /\ UploadBodyStart
    /\ pc' = "in_upload_documents"
    /\ UNCHANGED <<stats, exc, propagated, exit_path, exit_code, returned, orch_vars,
                   parse_vars, embed_vars, config_vars, index_vars,
                   chunker_vars, rag_vars, retry_vars, cleaner_vars, api_vars>>

\* One iteration of the batch loop: the store answers or raises.
UploadBatch ==
    /\ pc = "in_upload_documents"
    /\ up_i < Len(chunks_with_embeddings)
    /\ LET batch == upload_batch(chunks_with_embeddings, up_i, index_batch_size) IN
       \/ \E result \in StoreResults(batch) :
             LET c == count_results(uploaded_count, failed_count, result) IN
             /\ uploaded_count' = c.uploaded
             /\ failed_count' = c.failed
             /\ up_log' = [up_log EXCEPT
                              !.succeeded = @ + Cardinality({k \in 1..Len(result) : result[k]}),
                              !.rejected = @ + Cardinality({k \in 1..Len(result) : ~result[k]}),
                              !.batches = @ + 1,
                              !.exact = @ /\ Len(result) = Len(batch)]
       \/ LET c == upload_batch_except(uploaded_count, failed_count, batch) IN
             /\ uploaded_count' = c.uploaded
             /\ failed_count' = c.failed
             /\ up_log' = [up_log EXCEPT !.raised_items = @ + Len(batch),
                                         !.batches = @ + 1]
    /\ up_i' = up_i + index_batch_size
    /\ UNCHANGED <<pc, stats, exc, propagated, exit_path, exit_code, calls, returned,
                   orch_vars, parse_vars, embed_vars, up_attempt, config_vars, index_vars,
                   chunker_vars, rag_vars, retry_vars, cleaner_vars, api_vars>>

\* An exception leaves the body of upload_documents (outside the per-batch
\* try): the retry wrapper runs the body again, or re-raises after the last
\* attempt.
UploadDocumentsRaise ==
    /\ pc = "in_upload_documents"
    /\ \/ /\ retry_decision(up_attempt, UploadMaxRetries) = "retry"
          /\ up_attempt' = up_attempt + 1
          /\ UploadBodyStart
          /\ UNCHANGED <<pc, exc>>
       \/ /\ retry_decision(up_attempt, UploadMaxRetries) = "raise"
          /\ Raise("upload_documents", "outside_try")
          /\ UploadIdle
          /\ UNCHANGED up_log
    /\ UNCHANGED <<stats, propagated, exit_path, exit_code, calls, returned, orch_vars,
                   parse_vars, embed_vars, config_vars, index_vars,
                   chunker_vars, rag_vars, retry_vars, cleaner_vars, api_vars>>

\* upload_documents returns its counters; lines 104-111 of run_full_sync.
UploadDocumentsReturn ==
    /\ pc = "in_upload_documents"
    /\ up_i >= Len(chunks_with_embeddings)
    /\ returned' = Append(returned, "upload_documents")
    /\ Goto(after_upload(stats, [uploaded |-> uploaded_count, failed |-> failed_count]))
    /\ UploadIdle
    /\ UNCHANGED <<exc, propagated, exit_code, calls, orch_vars, parse_vars, embed_vars,
                   up_log, config_vars, index_vars,
                   chunker_vars, rag_vars, retry_vars, cleaner_vars, api_vars>>

\* ------------------------------------------------------------------ exits
\* except Exception as e (lines 113-117).
Except ==
    /\ pc = "except"
    /\ LET h == except_clause(stats, exc) IN
       /\ stats' = h.stats
       /\ propagated' = h.reraise
    /\ exit_path' = "exception"
    /\ pc' = "finally"
    /\ UNCHANGED <<exc, exit_code, calls, returned, orch_vars, parse_vars, embed_vars,
                   upload_vars, config_vars, index_vars,
                   chunker_vars, rag_vars, retry_vars, cleaner_vars, api_vars>>

\* finally (lines 119-143), then `return stats`.
Finally ==
    /\ pc = "finally"
    /\ stats' = finally_clause(stats)
    /\ pc' = "done"
    /\ UNCHANGED <<exc, propagated, exit_path, exit_code, calls, returned, orch_vars,
                   parse_vars, embed_vars, upload_vars, config_vars, index_vars,
                   chunker_vars, rag_vars, retry_vars, cleaner_vars, api_vars>>

\* main.run_sync after run_full_sync has ended.
RunSync ==
    /\ pc = "done"
    /\ exit_code' = run_sync_exit(stats, propagated)
    /\ pc' = "exited"
    /\ UNCHANGED <<stats, exc, propagated, exit_path, calls, returned, orch_vars,
                   parse_vars, embed_vars, upload_vars, config_vars, index_vars,
                   chunker_vars, rag_vars, retry_vars, cleaner_vars, api_vars>>

Next ==
    \/ CreateOrUpdateIndex
    \/ ClearIndex
    \/ Connect
    \/ FetchAllDocuments
    \/ ProcessDocumentsCall
    \/ ProcessDocument
    \/ ProcessDocumentsRaise
    \/ ProcessDocumentsReturn
    \/ EmbedChunksCall
    \/ GenerateEmbeddings
    \/ EmbedChunksRaise
    \/ EmbedChunksReturn
    \/ UploadDocumentsCall
    \/ UploadBatch
    \/ UploadDocumentsRaise
    \/ UploadDocumentsReturn
    \/ Except
    \/ Finally
    \/ RunSync

Spec == Init /\ [][Next]_vars

\* A resync: the index holds the documents of a previous cycle, none of
\* which this run uploads again (their pages are gone from the source).
PreviousCycles == {0, MaxBatch + 1, ListingTop, ListingTop + 1}

ResyncInit ==
    /\ RunStart
    /\ previous_docs \in PreviousCycles

ResyncSpec == ResyncInit /\ [][Next]_vars

\* ------------------------------------------------------------------ idle sync
\* run_full_sync while nobody runs it (the state of the sync side in the
\* specifications of the chunker, the RAG service and the retry wrapper).
SyncOff ==
    /\ pc = "off"
    /\ stats = initial_stats
    /\ exc = no_exception
    /\ propagated = FALSE
    /\ exit_path = "none"
    /\ exit_code = "none"
    /\ calls = <<>>
    /\ returned = <<>>
    /\ embed_batch_size = 1
    /\ index_batch_size = 1
    /\ documents = <<>>
    /\ chunks = <<>>
    /\ chunks_with_embeddings = <<>>
    /\ doc_i = 0
    /\ all_chunks = <<>>
    /\ emb_i = 0
    /\ emb_attempt = 0
    /\ results = <<>>
    /\ failed_batches = {}
    /\ up_i = 0
    /\ up_attempt = 0
    /\ uploaded_count = 0
    /\ failed_count = 0
    /\ up_log = empty_log
    /\ previous_docs = 0

\* ------------------------------------------------------------------ chunker calls
\* Longest text handed to the chunker, and the largest chunk_size and
\* chunk_overlap an instance is built with.
MaxTextLen == 5
MaxChunkSize == 2

\* The characters of the texts: a letter, a sentence terminator, a blank.
Alphabet == {"a", ".", " "}

Texts == UNION { [1..n -> Alphabet] : n \in 0..MaxTextLen }

\* Python slice s[a:b] for any integers a and b (a negative index counts from
\* the end, and every index is clamped to the list).
PyIndex(s, a) == IF a < 0 THEN Max(a + Len(s), 0) ELSE Min(a, Len(s))

PySlice(s, a, b) == SubSeq(s, PyIndex(s, a) + 1, PyIndex(s, b))

\* Mutant of chunk_text_iteration: the remaining words after the last full
\* window are not emitted.
chunk_text_iteration_drop_tail(words, start, chs, chunk_size, chunk_overlap) ==
    LET end == start + chunk_size
        chunks1 == Append(chs, join(<<" ">>, PySlice(words, start, end)))
        next == end - chunk_overlap
    IN IF next <= Len(words) - chunk_size
       THEN [start |-> next, chunks |-> chunks1, done |-> FALSE]
       ELSE [start |-> next, chunks |-> chunks1, done |-> TRUE]

\* One iteration of the while loop of chunk_text (lines 46-66): done tells
\* whether the loop was left by a break.
chunk_text_iteration(words, start, chs, chunk_size, chunk_overlap) ==
    LET end == start + chunk_size
        chunks1 == Append(chs, join(<<" ">>, PySlice(words, start, end)))
        next == end - chunk_overlap
    IN IF next <= Len(words) - chunk_size
       THEN [start |-> next, chunks |-> chunks1, done |-> FALSE]
       ELSE IF next < Len(words)
            THEN [start |-> next,
                  chunks |-> IF PySlice(words, next, Len(words)) # <<>>
                             THEN Append(chunks1, join(<<" ">>, PySlice(words, next, Len(words))))
                             ELSE chunks1,
                  done |-> TRUE]
            ELSE [start |-> next, chunks |-> chunks1, done |-> TRUE]

\* chunk_by_sentences returns for this input: chunk_text is entered only for a
\* sentence of more than chunk_size words, and its loop ends only when
\* chunk_overlap < chunk_size.
sentences_return(text, chunk_size, chunk_overlap) ==
    \/ text = <<>>
    \/ chunk_overlap < chunk_size
    \/ \A k \in 1..Len(split_sentences(text)) :
           Len(split(split_sentences(text)[k])) <= chunk_size

\* The Document the parser is handed in the chunker specification.
document_of(text) ==
    [id |-> 1, content |-> text, content_is_str |-> TRUE, metadata_is_dict |-> TRUE]

\* Mutant of instance_after_call: the call keeps a tuned overlap on the instance.
instance_after_call_tuned(chunk_size, chunk_overlap) ==
    [chunk_size |-> chunk_size, chunk_overlap |-> Max(chunk_overlap - 1, 0)]

\* The fields of the DocumentChunker after a call of one of its methods:
\* chunk_text, chunk_by_sentences and process_document assign nothing to self.
instance_after_call(chunk_size, chunk_overlap) ==
    [chunk_size |-> chunk_size, chunk_overlap |-> chunk_overlap]

\* The first result of chunk_by_sentences and of process_document is
\* remembered, and whether the last call repeated a remembered one.
Remember(op, out) ==
    ck_first' = IF op = "chunk_text" THEN [ck_first EXCEPT !.repeated = FALSE]
                ELSE IF op \in DOMAIN ck_first.out THEN [ck_first EXCEPT !.repeated = TRUE]
                ELSE [out |-> ck_first.out @@ (op :> out), repeated |-> FALSE]

\* A call returns `out`.
ChunkerReturn(op, out) ==
    /\ ck_pc' = "returned"
    /\ ck_op' = op
    /\ ck_out' = out
    /\ Remember(op, out)
    /\ ck_size' = instance_after_call(ck_size, ck_overlap).chunk_size
    /\ ck_overlap' = instance_after_call(ck_size, ck_overlap).chunk_overlap

ChunkerInit ==
    /\ SyncOff
    /\ RagOff
    /\ RetryOff
    /\ CleanerOff
    /\ ApiOff
    /\ ck_pc = "ready"
    /\ ck_size \in 1..MaxChunkSize
    /\ ck_overlap \in 0..MaxChunkSize
    /\ ck_text \in Texts
    /\ ck_op = "none"
    /\ ck_words = <<>>
    /\ ck_start = 0
    /\ ck_chunks = <<>>
    /\ ck_out = <<>>
    /\ ck_first = no_calls

\* chunk_text lines 33-44: the two early returns, or the loop is entered.
CallChunkText ==
    /\ ck_pc \in {"ready", "returned"}
    /\ IF ck_text = <<>>
       THEN /\ ChunkerReturn("chunk_text", <<>>)
            /\ UNCHANGED <<ck_words, ck_start, ck_chunks>>
       ELSE IF Len(split(ck_text)) <= ck_size
       THEN /\ ChunkerReturn("chunk_text", <<ck_text>>)
            /\ UNCHANGED <<ck_words, ck_start, ck_chunks>>
       ELSE /\ ck_pc' = "in_chunk_text"
            /\ ck_op' = "chunk_text"
            /\ ck_words' = split(ck_text)
            /\ ck_start' = 0
            /\ ck_chunks' = <<>>
            /\ UNCHANGED <<ck_size, ck_overlap, ck_out, ck_first>>
    /\ UNCHANGED <<ck_text, sync_vars, rag_vars, retry_vars, cleaner_vars, api_vars>>

\* One pass through the while loop of chunk_text.  The loop is followed until
\* it has produced more chunks than the text has words.
ChunkTextIterate ==
    /\ ck_pc = "in_chunk_text"
    /\ Len(ck_chunks) <= Len(ck_words)
    /\ IF ck_start < Len(ck_words)
       THEN LET r == chunk_text_iteration(ck_words, ck_start, ck_chunks, ck_size, ck_overlap) IN
            IF r.done
            THEN /\ ChunkerReturn("chunk_text", r.chunks)
                 /\ ck_words' = <<>>
                 /\ ck_start' = 0
                 /\ ck_chunks' = <<>>
            ELSE /\ ck_start' = r.start
                 /\ ck_chunks' = r.chunks
                 /\ UNCHANGED <<ck_pc, ck_op, ck_words, ck_size, ck_overlap, ck_out, ck_first>>
       ELSE /\ ChunkerReturn("chunk_text", ck_chunks)
            /\ ck_words' = <<>>
            /\ ck_start' = 0
            /\ ck_chunks' = <<>>
    /\ UNCHANGED <<ck_text, sync_vars, rag_vars, retry_vars, cleaner_vars, api_vars>>

\* chunk_by_sentences, for the inputs on which it returns.
CallChunkBySentences ==
    /\ ck_pc \in {"ready", "returned"}
    /\ sentences_return(ck_text, ck_size, ck_overlap)
    /\ ChunkerReturn("chunk_by_sentences", chunk_by_sentences(ck_text, ck_size, ck_overlap))
    /\ UNCHANGED <<ck_text, ck_words, ck_start, ck_chunks, sync_vars, rag_vars, retry_vars, cleaner_vars, api_vars>>

\* DocumentParser.process_document on a document with this text, for the
\* inputs on which it returns.
CallProcessDocument ==
    /\ ck_pc \in {"ready", "returned"}
    /\ sentences_return(clean_text(ck_text), ck_size, ck_overlap)
    /\ ChunkerReturn("process_document",
                     process_document(document_of(ck_text), ck_size, ck_overlap).value)
    /\ UNCHANGED <<ck_text, ck_words, ck_start, ck_chunks, sync_vars, rag_vars, retry_vars, cleaner_vars, api_vars>>

ChunkerNext ==
    \/ CallChunkText
    \/ ChunkTextIterate
    \/ CallChunkBySentences
    \/ CallProcessDocument

ChunkerSpec == ChunkerInit /\ [][ChunkerNext]_vars

\* ------------------------------------------------------------------ RAG service
\* Largest number of chunks a search returns (top_k).
MaxRetrieved == 3

\* The search results query_service hands over, reduced to the fields that
\* generate_answer reads; "" is an empty (or null) url.
RetrievedKinds ==
    { [url |-> u, title |-> t[1], author |-> t[2], source |-> "confluence"]
        : u \in {"", "A", "B"}, t \in {<<"T1", "P1">>, <<"T2", "P2">>} }

RetrievedLists == UNION { [1..n -> RetrievedKinds] : n \in 0..MaxRetrieved }

\* Mutant of extract_source_step: no seen_urls test.
extract_source_step_no_seen(acc, chunk) ==
    IF chunk.url # ""
    THEN [sources |-> Append(acc.sources,
                             [title |-> chunk.title, url |-> chunk.url,
                              author |-> chunk.author, source |-> chunk.source]),
          seen_urls |-> acc.seen_urls \cup {chunk.url}]
    ELSE acc

\* ChatService._extract_sources, one pass of its loop (lines 139-148).
extract_source_step(acc, chunk) ==
    IF chunk.url # "" /\ chunk.url \notin acc.seen_urls
    THEN [sources |-> Append(acc.sources,
                             [title |-> chunk.title, url |-> chunk.url,
                              author |-> chunk.author, source |-> chunk.source]),
          seen_urls |-> acc.seen_urls \cup {chunk.url}]
    ELSE acc

RECURSIVE extract_sources_loop(_, _)
extract_sources_loop(acc, chs) ==
    IF chs = <<>> THEN acc
    ELSE extract_sources_loop(extract_source_step(acc, Head(chs)), Tail(chs))

\* ChatService._extract_sources
extract_sources(chs) == extract_sources_loop([sources |-> <<>>, seen_urls |-> {}], chs).sources

\* ChatService.generate_answer, the dict built from the provider's response.
generate_answer(chs) ==
    [answer |-> "generated", model |-> "deployment_name",
     usage |-> [prompt_tokens |-> "n", completion_tokens |-> "n", total_tokens |-> "n"],
     sources |-> extract_sources(chs)]

\* answer_question lines 86-91: the dict returned when no chunk was retrieved.
no_chunks_result ==
    [answer |-> "no_relevant_information", sources |-> <<>>, retrieved_chunks |-> 0,
     question |-> "question"]

\* answer_question lines 104-108: result.update(...).
with_metadata(result, chs, use_hybrid_search) ==
    [answer |-> result.answer, model |-> result.model, usage |-> result.usage,
     sources |-> result.sources, question |-> "question",
     retrieved_chunks |-> Len(chs),
     search_type |-> IF use_hybrid_search THEN "hybrid" ELSE "vector"]

\* get_relevant_chunks lines 149-153.
relevant_chunks_result(chs) ==
    [question |-> "question", chunks |-> chs, count |-> Len(chs)]

\* Mutant of after_search: no early return, the chat provider is asked with
\* an empty context.
after_search_always_chat(op, chs) ==
    IF op = "get_relevant_chunks"
    THEN [pc |-> "done", result |-> <<relevant_chunks_result(chs)>>]
    ELSE [pc |-> "chat", result |-> <<>>]

\* What follows the search call: lines 84-91 of answer_question, lines 149-153
\* of get_relevant_chunks.
after_search(op, chs) ==
    IF op = "get_relevant_chunks"
    THEN [pc |-> "done", result |-> <<relevant_chunks_result(chs)>>]
    ELSE IF chs = <<>>
    THEN [pc |-> "done", result |-> <<no_chunks_result>>]
    ELSE [pc |-> "chat", result |-> <<>>]

\* Mutant of rag_except: the error is swallowed and a fallback answer returned.
rag_except_fallback(op) ==
    [raised |-> FALSE, result |-> <<no_chunks_result>>]

\* The except clauses of answer_question (113-115) and get_relevant_chunks
\* (155-157): log and raise again.
rag_except(op) ==
    [raised |-> TRUE, result |-> <<>>]

\* A provider or store invocation and whether it returned.
Invoked(call, ok) == rag_calls' = Append(rag_calls, [call |-> call, ok |-> ok])

\* An exception reaches the except clause of the running method.
RagFail ==
    /\ rag_raised' = rag_except(rag_op).raised
    /\ rag_result' = rag_except(rag_op).result
    /\ rag_pc' = "done"

RagInit ==
    /\ SyncOff
    /\ ChunkerOff
    /\ RetryOff
    /\ CleanerOff
    /\ ApiOff
    /\ rag_pc = "ready"
    /\ rag_op = "none"
    /\ rag_hybrid = FALSE
    /\ rag_attempt = 0
    /\ rag_calls = <<>>
    /\ rag_chunks = <<>>
    /\ rag_result = <<>>
    /\ rag_raised = FALSE

\* RAGService.answer_question is called.
AnswerQuestionCall ==
    /\ rag_pc = "ready"
    /\ rag_op' = "answer_question"
    /\ rag_hybrid' \in BOOLEAN
    /\ rag_pc' = "embed"
    /\ UNCHANGED <<rag_attempt, rag_calls, rag_chunks, rag_result, rag_raised,
                   sync_vars, chunker_vars, retry_vars, cleaner_vars, api_vars>>

\* RAGService.get_relevant_chunks is called (it always uses vector_search).
GetRelevantChunksCall ==
    /\ rag_pc = "ready"
    /\ rag_op' = "get_relevant_chunks"
    /\ rag_hybrid' = FALSE
    /\ rag_pc' = "embed"
    /\ UNCHANGED <<rag_attempt, rag_calls, rag_chunks, rag_result, rag_raised,
                   sync_vars, chunker_vars, retry_vars, cleaner_vars, api_vars>>

\* One attempt of generate_embeddings([question]) inside its retry wrapper:
\* the provider returns a vector, returns no vector (query_embeddings[0]
\* raises IndexError), or raises.
EmbedQuestion ==
    /\ rag_pc = "embed"
    /\ \/ /\ Invoked("embed", TRUE)
          /\ rag_pc' = "search"
          /\ UNCHANGED <<rag_attempt, rag_result, rag_raised>>
       \/ /\ Invoked("embed", FALSE)
          /\ RagFail
          /\ UNCHANGED rag_attempt
       \/ /\ retry_decision(rag_attempt, EmbedMaxRetries) = "retry"
          /\ Invoked("embed", FALSE)
          /\ rag_attempt' = rag_attempt + 1
          /\ UNCHANGED <<rag_pc, rag_result, rag_raised>>
       \/ /\ retry_decision(rag_attempt, EmbedMaxRetries) = "raise"
          /\ Invoked("embed", FALSE)
          /\ RagFail
          /\ UNCHANGED rag_attempt
    /\ UNCHANGED <<rag_op, rag_hybrid, rag_chunks, sync_vars, chunker_vars, retry_vars, cleaner_vars, api_vars>>

\* hybrid_search / vector_search: the store returns chunks or raises.
SearchChunks ==
    /\ rag_pc = "search"
    /\ \/ \E chs \in RetrievedLists :
             /\ Invoked("search", TRUE)
             /\ rag_chunks' = chs
             /\ rag_pc' = after_search(rag_op, chs).pc
             /\ rag_result' = after_search(rag_op, chs).result
             /\ UNCHANGED rag_raised
       \/ /\ Invoked("search", FALSE)
          /\ RagFail
          /\ UNCHANGED rag_chunks
    /\ UNCHANGED <<rag_op, rag_hybrid, rag_attempt, sync_vars, chunker_vars, retry_vars, cleaner_vars, api_vars>>

\* chat_service.generate_answer: the chat provider answers or raises.
GenerateAnswer ==
    /\ rag_pc = "chat"
    /\ \/ /\ Invoked("chat", TRUE)
          /\ rag_result' = <<with_metadata(generate_answer(rag_chunks), rag_chunks, rag_hybrid)>>
          /\ rag_pc' = "done"
          /\ UNCHANGED rag_raised
       \/ /\ Invoked("chat", FALSE)
          /\ RagFail
    /\ UNCHANGED <<rag_op, rag_hybrid, rag_attempt, rag_chunks, sync_vars, chunker_vars,
                   retry_vars, cleaner_vars, api_vars>>

RagNext ==
    \/ AnswerQuestionCall
    \/ GetRelevantChunksCall
    \/ EmbedQuestion
    \/ SearchChunks
    \/ GenerateAnswer

RagSpec == RagInit /\ [][RagNext]_vars

\* ------------------------------------------------------------------ retry wrapper
\* Largest max_retries, initial_delay and backoff_factor a wrapper is built with.
MaxMaxRetries == 3
MaxInitialDelay == 2
MaxBackoffFactor == 2

\* What one invocation of the wrapped function can do: return, raise an
\* exception of the `exceptions` tuple, or raise another exception.
AttemptResults == {"returned", "raised_matching", "raised_other"}

RetryInit ==
    /\ SyncOff
    /\ ChunkerOff
    /\ RagOff
    /\ CleanerOff
    /\ ApiOff
    /\ rt_pc = "attempt"
    /\ rt_max \in 0..MaxMaxRetries
    /\ rt_factor \in 1..MaxBackoffFactor
    /\ rt_attempt = 0
    /\ rt_delay \in 1..MaxInitialDelay
    /\ rt_log = <<>>
    /\ rt_outcome = "none"

\* Lines 37-44: one pass of the attempt loop up to the sleep.
RetryAttempt ==
    /\ rt_pc = "attempt"
    /\ \E result \in AttemptResults :
          /\ rt_log' = Append(rt_log, [event |-> "call", attempt |-> rt_attempt,
                                       result |-> result])
          /\ IF result = "returned"
             THEN /\ rt_outcome' = "returned"
                  /\ rt_pc' = "done"
             ELSE IF result = "raised_other"
             THEN /\ rt_outcome' = "raised"
                  /\ rt_pc' = "done"
             ELSE IF retry_decision(rt_attempt, rt_max) = "raise"
             THEN /\ rt_outcome' = "raised"
                  /\ rt_pc' = "done"
             ELSE /\ rt_outcome' = rt_outcome
                  /\ rt_pc' = "sleep"
    /\ UNCHANGED <<rt_max, rt_factor, rt_attempt, rt_delay, sync_vars, chunker_vars, rag_vars,
                   cleaner_vars, api_vars>>

\* Lines 50-51: time.sleep(delay); delay *= backoff_factor; next attempt.
RetrySleep ==
    /\ rt_pc = "sleep"
    /\ rt_log' = Append(rt_log, [event |-> "sleep", attempt |-> rt_attempt,
                                 result |-> "slept"])
    /\ rt_delay' = rt_delay * rt_factor
    /\ rt_attempt' = rt_attempt + 1
    /\ rt_pc' = "attempt"
    /\ UNCHANGED <<rt_max, rt_factor, rt_outcome, sync_vars, chunker_vars, rag_vars,
                   cleaner_vars, api_vars>>

RetryNext ==
    \/ RetryAttempt
    \/ RetrySleep

RetrySpec == RetryInit /\ [][RetryNext]_vars

\* ------------------------------------------------------------------ text cleaner calls
\* Longest raw text handed to clean_text.
MaxRawLen == 5

\* The characters of the raw texts: a letter, three whitespace characters and
\* a control character.
RawAlphabet == {"a", " ", "\n", "\r", "^A"}

RawTexts == UNION { [1..n -> RawAlphabet] : n \in 0..MaxRawLen }

CleanerInit ==
    /\ SyncOff
    /\ ChunkerOff
    /\ RagOff
    /\ RetryOff
    /\ ApiOff
    /\ cl_pc = "ready"
    /\ cl_text \in RawTexts
    /\ cl_out = <<>>

\* TextCleaner.clean_text(cl_text) returns.
CallCleanText ==
    /\ cl_pc = "ready"
    /\ cl_out' = clean_text(cl_text)
    /\ cl_pc' = "returned"
    /\ UNCHANGED <<cl_text, sync_vars, chunker_vars, rag_vars, retry_vars, api_vars>>

CleanerNext == CallCleanText

CleanerSpec == CleanerInit /\ [][CleanerNext]_vars

\* ------------------------------------------------------------------ API server
\* Number of top_k values other than the configured one a request may carry.
MaxOverride == 2

\* What a request can carry as top_k: nothing, or a value above the default.
OptionalTopK == {<<>>} \cup { <<RAG_TOP_K + d>> : d \in 1..MaxOverride }

\* POST /api/ask bodies: each of top_k, temperature and max_tokens is given
\* or not.
AskRequests ==
    { [op |-> "ask", top_k |-> k, temperature |-> t, max_tokens |-> m]
        : k \in OptionalTopK,
          t \in {<<>>, <<RAG_TEMPERATURE_TENTHS + 1>>},
          m \in {<<>>, <<RAG_MAX_TOKENS + 1>>} }

\* POST /api/search bodies.
SearchRequests ==
    { [op |-> "search", top_k |-> k, temperature |-> <<>>, max_tokens |-> <<>>]
        : k \in OptionalTopK }

\* `if "top_k" in data: rag_service.top_k = data["top_k"]`, and the same for
\* the other two fields: the field of the service after the statement.
override(service_value, given) == IF given # <<>> THEN given[1] ELSE service_value

\* Mutant of answer_question_top_k: the retrieval uses the configured default.
answer_question_top_k_default(service) == settings.top_k

\* The top_k answer_question passes to the search: self.top_k.
answer_question_top_k(service) == service.top_k

\* get_relevant_chunks: k = top_k if top_k is not None else self.top_k.
get_relevant_chunks_k(service, top_k) == IF top_k # <<>> THEN top_k[1] ELSE service.top_k

ApiInit ==
    /\ SyncOff
    /\ ChunkerOff
    /\ RagOff
    /\ RetryOff
    /\ CleanerOff
    /\ rag_service = new_rag_service
    /\ api_pc = [h \in Handlers |-> "idle"]
    /\ api_request = [h \in Handlers |-> no_request]
    /\ api_served = [h \in Handlers |-> nothing_served]
    /\ api_last_write = "none"

ApiFrame == UNCHANGED <<sync_vars, chunker_vars, rag_vars, retry_vars, cleaner_vars>>

\* A handler thread takes a POST /api/ask request and reads its body.
AskReceive(h) ==
    /\ api_pc[h] = "idle"
    /\ \E r \in AskRequests : api_request' = [api_request EXCEPT ![h] = r]
    /\ api_pc' = [api_pc EXCEPT ![h] = "override_top_k"]
    /\ UNCHANGED <<rag_service, api_served, api_last_write>>
    /\ ApiFrame

\* if "top_k" in data: rag_service.top_k = data["top_k"]
OverrideTopK(h) ==
    /\ api_pc[h] = "override_top_k"
    /\ rag_service' =
           [rag_service EXCEPT !.top_k = override(@, api_request[h].top_k)]
    /\ api_last_write' = IF api_request[h].top_k # <<>> THEN h ELSE api_last_write
    /\ api_pc' = [api_pc EXCEPT ![h] = "override_temperature"]
    /\ UNCHANGED <<api_request, api_served>>
    /\ ApiFrame

\* if "temperature" in data: rag_service.temperature = data["temperature"]
OverrideTemperature(h) ==
    /\ api_pc[h] = "override_temperature"
    /\ rag_service' =
           [rag_service EXCEPT !.temperature = override(@, api_request[h].temperature)]
    /\ api_pc' = [api_pc EXCEPT ![h] = "override_max_tokens"]
    /\ UNCHANGED <<api_request, api_served, api_last_write>>
    /\ ApiFrame

\* if "max_tokens" in data: rag_service.max_tokens = data["max_tokens"]
OverrideMaxTokens(h) ==
    /\ api_pc[h] = "override_max_tokens"
    /\ rag_service' =
           [rag_service EXCEPT !.max_tokens = override(@, api_request[h].max_tokens)]
    /\ api_pc' = [api_pc EXCEPT ![h] = "retrieve"]
    /\ UNCHANGED <<api_request, api_served, api_last_write>>
    /\ ApiFrame

\* rag_service.answer_question, steps 1 and 2: the question is embedded and
\* the search is made with self.top_k.
Retrieve(h) ==
    /\ api_pc[h] = "retrieve"
    /\ api_served' = [api_served EXCEPT
                         ![h].top_k = <<answer_question_top_k(rag_service)>>,
                         ![h].written_by = api_last_write]
    /\ api_pc' = [api_pc EXCEPT ![h] = "generate"]
    /\ UNCHANGED <<rag_service, api_request, api_last_write>>
    /\ ApiFrame

\* rag_service.answer_question, step 3: the answer is generated with
\* self.temperature and self.max_tokens.
Generate(h) ==
    /\ api_pc[h] = "generate"
    /\ api_served' = [api_served EXCEPT
                         ![h].temperature = <<rag_service.temperature>>,
                         ![h].max_tokens = <<rag_service.max_tokens>>]
    /\ api_pc' = [api_pc EXCEPT ![h] = "respond"]
    /\ UNCHANGED <<rag_service, api_request, api_last_write>>
    /\ ApiFrame

\* A handler thread takes a POST /api/search request and reads its body.
SearchReceive(h) ==
    /\ api_pc[h] = "idle"
    /\ \E r \in SearchRequests : api_request' = [api_request EXCEPT ![h] = r]
    /\ api_pc' = [api_pc EXCEPT ![h] = "search"]
    /\ UNCHANGED <<rag_service, api_served, api_last_write>>
    /\ ApiFrame

\* rag_service.get_relevant_chunks(question, top_k, filters).
GetRelevantChunks(h) ==
    /\ api_pc[h] = "search"
    /\ api_served' = [api_served EXCEPT
                         ![h].top_k = <<get_relevant_chunks_k(rag_service, api_request[h].top_k)>>,
                         ![h].written_by = api_last_write]
    /\ api_pc' = [api_pc EXCEPT ![h] = "respond"]
    /\ UNCHANGED <<rag_service, api_request, api_last_write>>
    /\ ApiFrame

\* The handler returns its response; the thread is free for the next request.
Respond(h) ==
    /\ api_pc[h] = "respond"
    /\ api_pc' = [api_pc EXCEPT ![h] = "idle"]
    /\ api_request' = [api_request EXCEPT ![h] = no_request]
    /\ api_served' = [api_served EXCEPT ![h] = nothing_served]
    /\ UNCHANGED <<rag_service, api_last_write>>
    /\ ApiFrame

ApiNext ==
    \E h \in Handlers :
        \/ AskReceive(h)
        \/ OverrideTopK(h)
        \/ OverrideTemperature(h)
        \/ OverrideMaxTokens(h)
        \/ Retrieve(h)
        \/ Generate(h)
        \/ SearchReceive(h)
        \/ GetRelevantChunks(h)
        \/ Respond(h)

ApiSpec == ApiInit /\ [][ApiNext]_vars

\* ------------------------------------------------------------------ properties
Range(s) == {s[k] : k \in DOMAIN s}

IsPrefix(a, b) == Len(a) <= Len(b) /\ SubSeq(b, 1, Len(a)) = a

\* run_full_sync has ended.
Finished == pc \in {"done", "exited"}

Called(step) == step \in Range(calls)

Returned(step) == step \in Range(returned)

\* ceil(n / b)
NumBatches(n, b) == (n + b - 1) \div b

CallOrder ==
    <<"create_or_update_index", "clear_index", "connect", "fetch_all_documents",
      "process_documents", "embed_chunks", "upload_documents">>

\* C1: the collaborator calls of a run happen only in the order
\* create_or_update_index, clear_index, connect, fetch_all_documents,
\* process_documents, embed_chunks, upload_documents, each at most once, and a
\* call is made only after every earlier one has returned without raising.
C1_CallOrder ==
    /\ IsPrefix(calls, CallOrder)
    /\ IsPrefix(returned, calls)
    /\ Len(calls) <= Len(returned) + 1

\* A run that made all seven calls and saw all of them return.
C1_Witness ==
    /\ Finished
    /\ calls = CallOrder
    /\ returned = CallOrder

\* C2: when a step raises, run_full_sync does not raise: it returns stats with
\* success = false and the error message appended to errors, no later step is
\* invoked, and the counters of the steps that had completed keep their values.
C2_FatalException ==
    (Finished /\ exc.step # "none") =>
        /\ ~propagated
        /\ exit_path = "exception"
        /\ stats.success = FALSE
        /\ stats.errors = << <<"Fatal error during sync: ", exc.step>> >>
        /\ Len(calls) = Len(returned) + 1
        /\ calls[Len(calls)] = exc.step
        /\ stats.documents_fetched =
               IF Returned("fetch_all_documents") THEN Len(documents) ELSE 0
        /\ stats.chunks_created =
               IF Returned("process_documents") THEN Len(chunks) ELSE 0
        /\ stats.chunks_embedded =
               IF Returned("embed_chunks") THEN Len(chunks_with_embeddings) ELSE 0
        /\ stats.chunks_uploaded = 0
        /\ stats.failed_uploads = 0

\* upload_documents raised after documents were fetched, chunked and embedded.
C2_Witness ==
    /\ Finished
    /\ exc.step = "upload_documents"
    /\ stats.documents_fetched > 0
    /\ stats.chunks_created > 0
    /\ stats.chunks_embedded > 0
    /\ stats.errors # <<>>

\* C3: when the source returns no documents, or the documents yield no chunks,
\* the run reports success with chunks_created = chunks_embedded =
\* chunks_uploaded = 0 (documents_fetched = 0 in the first case), and neither
\* embed_chunks nor upload_documents is invoked.
C3_ShortCircuit ==
    /\ (Finished /\ Returned("fetch_all_documents") /\ documents = <<>>) =>
           /\ stats.success = TRUE
           /\ stats.documents_fetched = 0
           /\ stats.chunks_created = 0
           /\ stats.chunks_embedded = 0
           /\ stats.chunks_uploaded = 0
    /\ (Finished /\ Returned("process_documents") /\ chunks = <<>>) =>
           /\ stats.success = TRUE
           /\ stats.chunks_created = 0
           /\ stats.chunks_embedded = 0
           /\ stats.chunks_uploaded = 0
    /\ ((Returned("fetch_all_documents") /\ documents = <<>>)
            \/ (Returned("process_documents") /\ chunks = <<>>)) =>
           /\ ~Called("embed_chunks")
           /\ ~Called("upload_documents")

\* A run whose documents (as many as a fetch can return) yielded no chunk.
C3_Witness ==
    /\ Finished
    /\ Returned("process_documents")
    /\ Len(documents) = MaxDocs
    /\ chunks = <<>>
    /\ stats.success = TRUE

\* C4: when chunks were created and embed_chunks returns an empty list, the
\* run reports success = false with chunks_embedded = chunks_uploaded =
\* failed_uploads = 0, and upload_documents is never invoked.
C4_EmptyEmbedding ==
    (Returned("embed_chunks") /\ chunks # <<>> /\ chunks_with_embeddings = <<>>) =>
        /\ ~Called("upload_documents")
        /\ Finished =>
               /\ stats.success = FALSE
               /\ stats.chunks_embedded = 0
               /\ stats.chunks_uploaded = 0
               /\ stats.failed_uploads = 0

\* A finished run in which every embedding batch of several chunks failed.
C4_Witness ==
    /\ Finished
    /\ Returned("embed_chunks")
    /\ Len(chunks) >= 2
    /\ chunks_with_embeddings = <<>>
    /\ exc.step = "none"

\* C5: upload_documents counts every pair once: a succeeded item adds 1 to
\* uploaded, a failed item 1 to failed, a raising batch its whole size to
\* failed, and every later batch is still attempted; when the store answers one
\* result per item, uploaded + failed is the number of pairs, and the run's
\* chunks_uploaded + failed_uploads equals chunks_embedded.
C5_UploadCounts ==
    /\ pc = "in_upload_documents" =>
           /\ uploaded_count = up_log.succeeded
           /\ failed_count = up_log.rejected + up_log.raised_items
           /\ up_log.batches =
                  NumBatches(Min(up_i, Len(chunks_with_embeddings)), index_batch_size)
           /\ up_log.exact =>
                  uploaded_count + failed_count = Min(up_i, Len(chunks_with_embeddings))
    /\ Returned("upload_documents") =>
           /\ stats.chunks_uploaded = up_log.succeeded
           /\ stats.failed_uploads = up_log.rejected + up_log.raised_items
           /\ up_log.batches = NumBatches(Len(chunks_with_embeddings), index_batch_size)
           /\ up_log.exact =>
                  /\ stats.chunks_uploaded + stats.failed_uploads
                         = Len(chunks_with_embeddings)
                  /\ stats.chunks_uploaded + stats.failed_uploads = stats.chunks_embedded

\* An upload with a raising batch, a succeeded item and a failed item, the
\* store answering one result per item: a batch after the raising one was
\* attempted.
C5_Witness ==
    /\ Finished
    /\ Returned("upload_documents")
    /\ up_log.exact
    /\ up_log.raised_items > 0
    /\ up_log.succeeded > 0
    /\ up_log.rejected > 0
    /\ stats.chunks_uploaded + stats.failed_uploads = stats.chunks_embedded

\* C6: upload failures never fail the run: a run in which no step raises and
\* embed_chunks returns at least one pair ends with success = true, whatever
\* the number of failed uploads.
C6_UploadFailuresKeepSuccess ==
    (Finished /\ exc.step = "none" /\ Returned("embed_chunks")
        /\ chunks_with_embeddings # <<>>) =>
        /\ Returned("upload_documents")
        /\ stats.success = TRUE

\* Every upload batch raised: nothing was uploaded and the run reports success.
C6_Witness ==
    /\ Finished
    /\ Returned("upload_documents")
    /\ up_log.batches >= 2
    /\ up_log.raised_items = Len(chunks_with_embeddings)
    /\ stats.chunks_uploaded = 0
    /\ stats.failed_uploads = stats.chunks_embedded
    /\ stats.success = TRUE

\* C7: every stats record run_full_sync returns carries end_time and
\* duration_seconds, on each exit path: zero documents, zero chunks, empty
\* embedding, normal completion and the fatal exception.
C7_StatsFinalized ==
    Finished =>
        /\ stats.end_time = "set"
        /\ stats.duration_seconds = "set"
        /\ exit_path \in {"no_documents", "no_chunks", "no_embeddings", "completed",
                          "exception"}

\* The run ended by the early return on an empty document list.
C7_Witness ==
    /\ Finished
    /\ exit_path = "no_documents"
    /\ stats.end_time = "set"
    /\ stats.duration_seconds = "set"

\* The positions (from 1) of the first n chunks whose batch did not fail.
KeptPositions(n, batch_size, failed) ==
    {k \in 1..n : ((k - 1) \div batch_size) * batch_size \notin failed}

\* The (chunk, vector) pairs of the chunks at the positions `kept`, in order.
PairsAt(chs, kept) ==
    [j \in 1..Cardinality(kept) |->
        LET k == CHOOSE m \in kept : Cardinality({q \in kept : q <= m}) = j
        IN <<chs[k], provider_embeddings(<<chs[k].content>>)[1]>>]

\* C8: embed_chunks never raises because of a failing batch: it returns the
\* pairs of exactly the batches that did not fail, in input order, goes on to
\* the batches after a failed one, and chunks_embedded is the number of chunks
\* in the batches that did not fail.
C8_BatchIsolation ==
    /\ exc.origin # "batch"
    /\ \A b \in failed_batches : b < Len(chunks) /\ b % embed_batch_size = 0
    /\ pc = "in_embed_chunks" =>
           /\ \A b \in failed_batches : b < emb_i
           /\ results = PairsAt(chunks, KeptPositions(Min(emb_i, Len(chunks)),
                                                      embed_batch_size, failed_batches))
    /\ Returned("embed_chunks") =>
           /\ chunks_with_embeddings =
                  PairsAt(chunks, KeptPositions(Len(chunks), embed_batch_size,
                                                failed_batches))
           /\ stats.chunks_embedded =
                  Cardinality(KeptPositions(Len(chunks), embed_batch_size,
                                            failed_batches))

\* Three batches of which the second failed: batches 1 and 3 only.
C8_Witness ==
    /\ Finished
    /\ Returned("embed_chunks")
    /\ Len(chunks) = 3
    /\ embed_batch_size = 1
    /\ failed_batches = {1}
    /\ stats.chunks_embedded = 2
    /\ chunks_with_embeddings
           = <<<<chunks[1], [vector_of |-> chunks[1].content]>>,
               <<chunks[3], [vector_of |-> chunks[3].content]>>>>

\* The chunks in `chs` that carry the id of document d.
ChunksOf(chs, d) == SelectSeq(chs, LAMBDA c : c.id[1] = d.id)

\* chs is the concatenation, in document order, of what the first n documents
\* yield: the chunks of a document whose processing completed, nothing for a
\* document whose processing raised.
IsConcatenation(chs, n) ==
    /\ \A d \in 1..Len(documents) :
           LET r == process_document_try(documents[d], ChunkSize, ChunkOverlap) IN
           ChunksOf(chs, documents[d]) = IF d <= n /\ ~r.raised THEN r.value ELSE <<>>
    /\ \A j, k \in 1..Len(chs) : j < k => chs[j].id[1] <= chs[k].id[1]

\* The state in which process_documents has just returned to run_full_sync.
JustReturnedFromProcess ==
    /\ Returned("process_documents")
    /\ pc = "embed_chunks" \/ (pc = "finally" /\ exit_path = "no_chunks")

\* C9: process_documents never raises because of one document: its result is
\* the concatenation, in document order, of the chunks of the documents whose
\* processing completed, a document whose processing raises contributes no
\* chunk, and the documents after it are still processed.
C9_DocumentIsolation ==
    /\ exc.origin # "document"
    /\ pc = "in_process_documents" =>
           IsConcatenation(all_chunks, doc_i - 1)
    /\ JustReturnedFromProcess =>
           IsConcatenation(chunks, Len(documents))

\* The first document raised, the second was still processed into chunks.
C9_Witness ==
    /\ JustReturnedFromProcess
    /\ Len(documents) = 2
    /\ process_document_try(documents[1], ChunkSize, ChunkOverlap).raised
    /\ ChunksOf(chunks, documents[1]) = <<>>
    /\ Len(ChunksOf(chunks, documents[2])) = 2

\* Every chunk in chs belongs to a document, and the chunks of a document are
\* numbered 0..n-1 in order, carry total_chunks = n and the id made of the
\* document id and the number; no two chunks share an id.
HasChunkIdentity(chs) ==
    /\ \A d \in 1..Len(documents) :
           LET mine == ChunksOf(chs, documents[d]) IN
           \A k \in 1..Len(mine) :
               /\ mine[k].chunk_index = k - 1
               /\ mine[k].total_chunks = Len(mine)
               /\ mine[k].id = <<documents[d].id, "_chunk_", k - 1>>
    /\ \A j, k \in 1..Len(chs) : j # k => chs[j].id # chs[k].id
    /\ \A j \in 1..Len(chs) : \E d \in 1..Len(documents) : chs[j].id[1] = documents[d].id

\* C10: for a document turned into n >= 1 chunks, the k-th chunk (k = 0..n-1)
\* has chunk_index = k, total_chunks = n and id '{document.id}_chunk_{k}'; the
\* ids of the chunks are pairwise distinct.
C10_ChunkIdentity ==
    /\ HasChunkIdentity(all_chunks)
    /\ HasChunkIdentity(chunks)

\* Two documents of two chunks each were processed.
C10_Witness ==
    /\ Len(chunks) = 4
    /\ chunks[2].chunk_index = 1
    /\ chunks[2].total_chunks = 2
    /\ chunks[2].id = <<1, "_chunk_", 1>>
    /\ chunks[3].chunk_index = 0
    /\ chunks[3].id = <<2, "_chunk_", 0>>

\* ------------------------------------------------------------------ chunker claims
\* Number of whitespace-delimited words of a chunk.
WordCount(chunk) == Len(split(chunk))

\* C11: with 0 <= chunk_overlap < chunk_size, every chunk returned by
\* chunk_by_sentences has at most chunk_size whitespace-delimited words.
C11_ChunkBound ==
    (ck_pc = "returned" /\ ck_op = "chunk_by_sentences" /\ ck_overlap < ck_size)
        => \A k \in 1..Len(ck_out) : WordCount(ck_out[k]) <= ck_size

\* C12: chunk_text terminates for every text and every configuration: the
\* while loop runs while start < len(words), so every pass that stays in the
\* loop has to move start forward.
C12_ChunkTextTerminates ==
    [][(ck_pc = "in_chunk_text" /\ ck_pc' = "in_chunk_text") => ck_start' > ck_start]_vars

\* The k-th window (k from 1) of n words: Python's words[start:start + size].
WindowStart(k) == (k - 1) * (ck_size - ck_overlap)

WindowEnd(k, n) == Min(WindowStart(k) + ck_size, n)

ChunkTextReturnedWindows ==
    /\ ck_pc = "returned"
    /\ ck_op = "chunk_text"
    /\ ck_overlap < ck_size
    /\ Len(split(ck_text)) > ck_size

\* C13: for a text of more than chunk_size words and 0 <= chunk_overlap <
\* chunk_size, chunk_text returns the windows of the word sequence that start
\* at 0, step, 2*step, ... (step = chunk_size - chunk_overlap), in that order;
\* every word lies in a window and the last chunk ends at the last word.
C13_WindowCoverage ==
    ChunkTextReturnedWindows =>
        LET words == split(ck_text)
            n == Len(words)
            m == Len(ck_out)
        IN /\ m >= 1
           /\ \A k \in 1..m :
                  /\ WindowStart(k) < n
                  /\ ck_out[k] = join(<<" ">>, SubSeq(words, WindowStart(k) + 1, WindowEnd(k, n)))
           /\ \A p \in 1..n : \E k \in 1..m : WindowStart(k) < p /\ p <= WindowEnd(k, n)
           /\ WindowEnd(m, n) = n

\* chunk_text returned three or more windows, the last one a partial window.
C13_Witness ==
    /\ ChunkTextReturnedWindows
    /\ Len(ck_out) >= 3
    /\ WordCount(ck_out[Len(ck_out)]) < ck_size

Count(call) == Cardinality({i \in DOMAIN rag_calls : rag_calls[i].call = call})

\* An invocation of it returned.
Succeeded(call) == \E i \in DOMAIN rag_calls : rag_calls[i] = [call |-> call, ok |-> TRUE]

\* C15: when the search returns zero chunks, answer_question returns the
\* canned answer with sources = [] and retrieved_chunks = 0, does not raise
\* and does not invoke the chat provider; when it returns one chunk or more,
\* the chat provider is invoked exactly once.
C15_EmptyRetrieval ==
    /\ Count("chat") <= 1
    /\ (rag_op = "answer_question" /\ Succeeded("search") /\ rag_chunks = <<>>)
           => /\ rag_pc = "done"
              /\ ~rag_raised
              /\ Len(rag_result) = 1
              /\ rag_result[1].answer = "no_relevant_information"
              /\ rag_result[1].sources = <<>>
              /\ rag_result[1].retrieved_chunks = 0
              /\ Count("chat") = 0
    /\ (rag_op = "answer_question" /\ Succeeded("search") /\ rag_chunks # <<>>
            /\ rag_pc = "done")
           => Count("chat") = 1

\* answer_question has returned after a search that found nothing.
C15_Witness ==
    /\ rag_op = "answer_question"
    /\ rag_pc = "done"
    /\ Succeeded("search")
    /\ rag_chunks = <<>>
    /\ rag_result # <<>>

\* Position of the first retrieved chunk with url u.
FirstWithUrl(u) ==
    CHOOSE i \in 1..Len(rag_chunks) :
        /\ rag_chunks[i].url = u
        /\ \A j \in 1..(i - 1) : rag_chunks[j].url # u

\* C16: the sources of an answer hold each distinct non-empty url of the
\* retrieved chunks exactly once, in order of first appearance, with the title
\* and author of the first chunk that has the url.
C16_SourcesDeduplicated ==
    (rag_op = "answer_question" /\ Succeeded("chat")) =>
        LET sources == rag_result[1].sources IN
        /\ {sources[i].url : i \in 1..Len(sources)}
               = {rag_chunks[i].url : i \in 1..Len(rag_chunks)} \ {""}
        /\ \A i, j \in 1..Len(sources) :
               i < j => /\ sources[i].url # sources[j].url
                        /\ FirstWithUrl(sources[i].url) < FirstWithUrl(sources[j].url)
        /\ \A i \in 1..Len(sources) :
               /\ sources[i].title = rag_chunks[FirstWithUrl(sources[i].url)].title
               /\ sources[i].author = rag_chunks[FirstWithUrl(sources[i].url)].author

\* The retrieved urls are A, B, A, the two chunks of A have different titles,
\* and the answer was returned.
C16_Witness ==
    /\ rag_op = "answer_question"
    /\ Succeeded("chat")
    /\ Len(rag_chunks) = 3
    /\ rag_chunks[1].url = "A"
    /\ rag_chunks[2].url = "B"
    /\ rag_chunks[3].url = "A"
    /\ rag_chunks[1].title # rag_chunks[3].title
    /\ Len(rag_result[1].sources) = 2

\* C17: every result answer_question returns has the fields answer, model,
\* usage, sources, question, retrieved_chunks and search_type, and search_type
\* is 'hybrid' exactly when use_hybrid_search is true, 'vector' otherwise.
C17_ResultFields ==
    (rag_op = "answer_question" /\ rag_result # <<>>) =>
        /\ {"answer", "model", "usage", "sources", "question", "retrieved_chunks",
            "search_type"} \subseteq DOMAIN rag_result[1]
        /\ rag_result[1].search_type = (IF rag_hybrid THEN "hybrid" ELSE "vector")

\* C18: if embedding the question fails, the call raises and neither the
\* search store nor the chat provider is invoked; if the search fails, the call
\* raises and the chat provider is not invoked; nothing is returned in either
\* case.
C18_ErrorsPropagate ==
    /\ Count("search") > 0 => Succeeded("embed")
    /\ Count("chat") > 0 => Succeeded("search")
    /\ (rag_pc = "done" /\ ~Succeeded("embed"))
           => rag_raised /\ rag_result = <<>> /\ Count("search") = 0 /\ Count("chat") = 0
    /\ (rag_pc = "done" /\ Count("search") > 0 /\ ~Succeeded("search"))
           => rag_raised /\ rag_result = <<>> /\ Count("chat") = 0

\* answer_question has ended after every attempt to embed the question failed.
C18_Witness ==
    /\ rag_op = "answer_question"
    /\ rag_pc = "done"
    /\ Count("embed") = EmbedMaxRetries + 1
    /\ ~Succeeded("embed")

\* ------------------------------------------------------------------ retry claims
\* C19: when the store's upload call for a batch raises, the batch is
\* attempted again, and its chunks are counted as failed only once the
\* retries are exhausted: a step in which a batch's store call raised while
\* the retry wrapper has attempts left counts no failure.
C19_UploadRetried ==
    [][(up_log'.raised_items > up_log.raised_items /\ up_attempt < UploadMaxRetries)
           => failed_count' = failed_count]_vars

\* The invocations of the wrapped function, and the sleeps, as positions of rt_log.
CallsAt == {i \in DOMAIN rt_log : rt_log[i].event = "call"}

SleepsAt == {i \in DOMAIN rt_log : rt_log[i].event = "sleep"}

\* C20: a function wrapped with max_retries = n is invoked at most n + 1
\* times; the wrapper returns at the first attempt that succeeds and attempts
\* nothing after it; when all n + 1 attempts raise a matching exception the last
\* one is raised to the caller; a sleep happens only between two attempts,
\* never after the last.  With n = 3 (embedding) that is at most 4 invocations.
C20_RetryBound ==
    /\ Cardinality(CallsAt) <= rt_max + 1
    /\ rt_max = EmbedMaxRetries => Cardinality(CallsAt) <= 4
    /\ \A i \in CallsAt :
           /\ rt_log[i].attempt = Cardinality({j \in CallsAt : j < i})
           /\ rt_log[i].result = "returned"
                  => i = Len(rt_log) /\ rt_pc = "done" /\ rt_outcome = "returned"
    /\ rt_outcome = "returned" => rt_log[Len(rt_log)].result = "returned"
    /\ (Cardinality(CallsAt) = rt_max + 1
            /\ \A i \in CallsAt : rt_log[i].result = "raised_matching")
           => /\ rt_pc = "done"
              /\ rt_outcome = "raised"
              /\ rt_log[Len(rt_log)] = [event |-> "call", attempt |-> rt_max,
                                        result |-> "raised_matching"]
    /\ \A i \in SleepsAt :
           /\ i - 1 \in CallsAt
           /\ rt_log[i - 1].result = "raised_matching"
           /\ rt_log[i - 1].attempt < rt_max
           /\ rt_pc = "done" => i + 1 \in CallsAt

\* A wrapper with max_retries = 3 whose four attempts all raised a matching
\* exception, with three sleeps between them.
C20_Witness ==
    /\ rt_pc = "done"
    /\ rt_max = 3
    /\ rt_outcome = "raised"
    /\ Cardinality(CallsAt) = 4
    /\ Cardinality(SleepsAt) = 3
    /\ \A i \in CallsAt : rt_log[i].result = "raised_matching"

\* ------------------------------------------------------------------ stats record
\* C25: in the stats record a finished run returns, whatever failed,
\* chunks_uploaded + failed_uploads <= chunks_embedded <= chunks_created,
\* chunks_created is 0 when documents_fetched is 0, and the counter of a step
\* that was never reached is 0.
C25_StatsCounters ==
    Finished =>
        /\ stats.chunks_uploaded + stats.failed_uploads <= stats.chunks_embedded
        /\ stats.chunks_embedded <= stats.chunks_created
        /\ stats.documents_fetched = 0 => stats.chunks_created = 0
        /\ ~Called("fetch_all_documents") => stats.documents_fetched = 0
        /\ ~Called("process_documents") => stats.chunks_created = 0
        /\ ~Called("embed_chunks") => stats.chunks_embedded = 0
        /\ ~Called("upload_documents") =>
               stats.chunks_uploaded = 0 /\ stats.failed_uploads = 0

\* A finished run with every inequality strict or tight in turn: an embedding
\* batch was dropped, the last upload batch, shorter than the batch size,
\* raised, and the store dropped no answer.
C25_Witness ==
    /\ Finished
    /\ Returned("upload_documents")
    /\ stats.chunks_embedded < stats.chunks_created
    /\ up_log.raised_items > 0
    /\ up_log.raised_items < index_batch_size
    /\ up_log.exact
    /\ stats.chunks_uploaded + stats.failed_uploads = stats.chunks_embedded

\* C26: in the stats record a finished run returns, success is false exactly
\* when the errors list is non-empty.
C26_FailureHasError ==
    Finished => ((stats.success = FALSE) <=> (stats.errors # <<>>))

\* ------------------------------------------------------------------ sentence chunks
\* A call of chunk_by_sentences has returned, made with an overlap below the
\* chunk size.
SentencesReturned ==
    /\ ck_pc = "returned"
    /\ ck_op = "chunk_by_sentences"
    /\ ck_overlap < ck_size

\* The last k words of a word list, all of them when it has fewer.
LastWords(words, k) == SubSeq(words, Len(words) - Min(k, Len(words)) + 1, Len(words))

\* The loop state of chunk_by_sentences before its k-th sentence.
BeforeSentence(k) ==
    sentence_loop([chunks |-> <<>>, current_chunk |-> <<>>, current_size |-> 0],
                  SubSeq(split_sentences(ck_text), 1, k - 1), ck_size, ck_overlap)

\* The k-th sentence of the text does not fit the chunk being accumulated.
Overflows(k) ==
    BeforeSentence(k).current_size + WordCount(split_sentences(ck_text)[k]) > ck_size

\* The chunk list of a loop state once its current chunk is flushed.
Flushed(st) ==
    IF st.current_chunk # <<>>
    THEN Append(st.chunks, join(<<" ">>, st.current_chunk))
    ELSE st.chunks

\* C22: in chunk_by_sentences with chunk_overlap in 0..chunk_size-1, a sentence
\* of at most chunk_size words that does not fit flushes the current chunk and
\* starts the next one with exactly the last chunk_overlap words of the flushed
\* chunk followed by the sentence; a longer sentence flushes the current chunk,
\* appends its word windows with no overlap words and restarts accumulation
\* empty.
C22_OverlapSeeding ==
    SentencesReturned =>
        \A k \in 1..Len(split_sentences(ck_text)) :
            LET sentence == split_sentences(ck_text)[k]
                before == BeforeSentence(k)
                after == BeforeSentence(k + 1)
            IN Overflows(k) =>
                   IF WordCount(sentence) <= ck_size
                   THEN /\ after.chunks = Flushed(before)
                        /\ after.chunks # <<>>
                        /\ split(join(<<" ">>, after.current_chunk))
                               = LastWords(split(after.chunks[Len(after.chunks)]), ck_overlap)
                                     \o split(sentence)
                   ELSE /\ after.chunks
                               = Flushed(before) \o chunk_text(sentence, ck_size, ck_overlap)
                        /\ after.current_chunk = <<>>
                        /\ after.current_size = 0

\* C28: for chunk_overlap in 0..chunk_size-1, every chunk chunk_by_sentences
\* returns has at most chunk_size + chunk_overlap words.
C28_SentenceChunkBound ==
    SentencesReturned =>
        \A i \in DOMAIN ck_out : WordCount(ck_out[i]) <= ck_size + ck_overlap

\* The text a returned call chunked, and the chunk texts it returned:
\* process_document chunks the cleaned content.
ChunkedText == IF ck_op = "process_document" THEN clean_text(ck_text) ELSE ck_text

ChunkTexts ==
    IF ck_op = "process_document"
    THEN [i \in DOMAIN ck_out |-> ck_out[i].content]
    ELSE ck_out

\* The chunks from the i-th on, each with some prefix removed that repeats the
\* last words of the chunk before it, list the words from position pos + 1 on.
RECURSIVE ListsWordsFrom(_, _, _)
ListsWordsFrom(chs, i, pos) ==
    LET words == split(ChunkedText) IN
    IF i > Len(chs) THEN pos = Len(words)
    ELSE LET w == split(chs[i]) IN
         \E p \in 0..Len(w) :
             /\ i = 1 => p = 0
             /\ i > 1 => /\ p <= WordCount(chs[i - 1])
                         /\ SubSeq(w, 1, p) = LastWords(split(chs[i - 1]), p)
             /\ pos + Len(w) - p <= Len(words)
             /\ SubSeq(w, p + 1, Len(w)) = SubSeq(words, pos + 1, pos + Len(w) - p)
             /\ ListsWordsFrom(chs, i + 1, pos + Len(w) - p)

\* A returned call of chunk_by_sentences, directly or from process_document,
\* on a non-empty text without leading or trailing whitespace.
ChunkedCleanText ==
    /\ ck_pc = "returned"
    /\ ck_op \in {"chunk_by_sentences", "process_document"}
    /\ ck_overlap < ck_size
    /\ ChunkedText # <<>>
    /\ strip(ChunkedText) = ChunkedText

\* C30: for a non-empty cleaned text and chunk_overlap in 0..chunk_size-1,
\* chunk_by_sentences loses no text: every word of the input occurs in a
\* returned chunk, the chunks with their overlap prefixes removed list the
\* input's words in order, and neither the chunk list nor a chunk is empty.
C30_NoTextLoss ==
    ChunkedCleanText =>
        /\ ChunkTexts # <<>>
        /\ \A i \in DOMAIN ChunkTexts : WordCount(ChunkTexts[i]) >= 1
        /\ \A k \in DOMAIN split(ChunkedText) :
               \E i \in DOMAIN ChunkTexts :
                   split(ChunkedText)[k] \in Range(split(ChunkTexts[i]))
        /\ ListsWordsFrom(ChunkTexts, 1, 0)

\* chunk_by_sentences returned the windows of a sentence longer than the chunk
\* size and, after them, a chunk with the following sentence.
C30_Witness ==
    /\ ChunkedCleanText
    /\ ck_op = "chunk_by_sentences"
    /\ Len(ck_out) >= 3
    /\ Len(split_sentences(ck_text)) >= 2
    /\ \E k \in 1..Len(split_sentences(ck_text)) :
           WordCount(split_sentences(ck_text)[k]) > ck_size

\* ------------------------------------------------------------------ cleaned text
\* C24: for every input, the output of clean_text has no control character, no
\* leading or trailing whitespace and no two consecutive whitespace
\* characters, and an empty or whitespace-only input gives the empty string.
C24_CleanOutput ==
    cl_pc = "returned" =>
        /\ \A i \in DOMAIN cl_out : cl_out[i] \notin ControlChars
        /\ cl_out # <<>> =>
               cl_out[1] \notin Whitespace /\ cl_out[Len(cl_out)] \notin Whitespace
        /\ \A i \in 1..(Len(cl_out) - 1) :
               ~(cl_out[i] \in Whitespace /\ cl_out[i + 1] \in Whitespace)
        /\ (\A i \in DOMAIN cl_text : cl_text[i] \in Whitespace) => cl_out = <<>>

\* ------------------------------------------------------------------ cleared index
\* C23: whenever clear_index has returned without raising, the index holds no
\* document of the previous cycle, whatever their number was; so after a run
\* that reaches the upload step every document in the index was uploaded by
\* that run.
C23_ClearEmptiesIndex ==
    /\ Returned("clear_index") => previous_docs = 0
    /\ Called("upload_documents") => previous_docs = 0

\* A run ended after clear_index returned and without calling
\* upload_documents.
EndedBeforeUpload ==
    /\ Finished
    /\ Returned("clear_index")
    /\ ~Called("upload_documents")

\* C27: a run that ends after the clear step without uploading returns with
\* an empty index: the documents of the previous cycle are gone and nothing
\* was uploaded, with success = false when a step raised or the embedding was
\* empty and success = true when there were no documents or no chunks.
C27_ClearedBeforeSource ==
    EndedBeforeUpload =>
        /\ previous_docs = 0
        /\ stats.chunks_uploaded = 0
        /\ exit_path \in {"no_documents", "no_chunks"} => stats.success = TRUE
        /\ exit_path \in {"no_embeddings", "exception"} => stats.success = FALSE

\* ------------------------------------------------------------------ shared service
\* The handler of h performs its retrieval in this step.
Retrieves(h) == api_pc[h] = "retrieve" /\ api_pc'[h] = "generate"

\* C21: the per-request override on the shared RAGService is unsafe under
\* concurrent requests: the retrieval of an ask request is performed with
\* whatever top_k the shared instance holds at that moment, so that when A has
\* written its top_k and B then writes a different one, A's retrieval is
\* performed with B's top_k.
C21_SharedOverride ==
    [][\A h \in Handlers :
           Retrieves(h) =>
               /\ api_served'[h].top_k = <<rag_service.top_k>>
               /\ api_served'[h].written_by = api_last_write
               /\ (api_request[h].top_k # <<>> /\ api_last_write = h)
                      => api_served'[h].top_k = api_request[h].top_k]_vars

\* A's request carried a top_k and A's retrieval was performed with the
\* different top_k of B's request, which B's handler wrote after A's write.
C21_Witness ==
    /\ api_pc["A"] = "generate"
    /\ api_request["A"].op = "ask"
    /\ api_request["A"].top_k # <<>>
    /\ api_request["B"].op = "ask"
    /\ api_request["B"].top_k # <<>>
    /\ api_request["B"].top_k # api_request["A"].top_k
    /\ api_pc["B"] \in {"override_temperature", "override_max_tokens", "retrieve"}
    /\ api_served["A"].written_by = "B"
    /\ api_served["A"].top_k = api_request["B"].top_k

\* The steps of a handler: the generation, the search of a search request,
\* the response.
Generates(h) == api_pc[h] = "generate" /\ api_pc'[h] = "respond"

Searches(h) == api_pc[h] = "search" /\ api_pc'[h] = "respond"

Responds(h) == api_pc[h] = "respond" /\ api_pc'[h] = "idle"

\* C29: an ask request without top_k, temperature or max_tokens is served with
\* the configured defaults, whatever was handled before: an override affects
\* only its own request, so the shared service holds the configured values
\* again once the request is answered, and get_relevant_chunks leaves the
\* service unchanged.
C29_OverrideIsLocal ==
    [][\A h \in Handlers :
           /\ (Retrieves(h) /\ api_request[h].top_k = <<>>)
                  => api_served'[h].top_k = <<settings.top_k>>
           /\ (Generates(h) /\ api_request[h].temperature = <<>>)
                  => api_served'[h].temperature = <<settings.temperature>>
           /\ (Generates(h) /\ api_request[h].max_tokens = <<>>)
                  => api_served'[h].max_tokens = <<settings.max_tokens>>
           /\ (Responds(h) /\ \A g \in Handlers \ {h} : api_pc[g] = "idle")
                  => rag_service' = new_rag_service
           /\ Searches(h) => rag_service' = rag_service]_vars
====
